---- MODULE Spec2Model ----
(***************************************************************************)
(* A model of the job scheduling core of pcvs: the hierarchical resource   *)
(* tracker (pcvs/helpers/resource_tracker.py) and the job pool of the      *)
(* Manager (pcvs/orchestration/manager.py) with the parts of Test          *)
(* (pcvs/testing/test.py) the Manager relies on.                           *)
(***************************************************************************)
EXTENDS Integers, Sequences, FiniteSets, TLC

(***************************************************************************)
(* Bounds of the model.                                                    *)
(***************************************************************************)
\* ids the tracker may issue in SpecRT (alloc_tracking_counter is unbounded in the code)
MaxId == 3
\* largest entry of a need vector tried in SpecRT
MaxNeed == 2
\* number of calls recorded in SpecRTLog
MaxCalls == 7

\* longest list of dependency names a test of the pool declares
MaxDeps == 2
\* depth at which the interpreter gives up a recursion (RecursionError)
RecursionLimit == 8
MaxFilterDeps == 1

\* The trackers of the process: dims_values of each RessourceTracker(...) built.
TrackerDims == << <<2, 2>>, <<2>> >>

Trackers == 1..Len(TrackerDims)

\* Need vectors tried in SpecRT: every vector of length <= 2 over 0..MaxNeed,
\* and one that is longer than any tree is deep.
Needs ==
  {<<>>} \cup {<<a>> : a \in 0..MaxNeed}
         \cup {<<a, b>> : a \in 0..MaxNeed, b \in 0..MaxNeed}
         \cup {<<1, 1, 1>>}

\* Need vectors of the recorded scenario runs (SpecRTLog).
LogNeeds == {<<1, 1>>, <<2, 2>>}

\* An optional value: None, or a value.
None == <<>>

Some(v) == <<v>>

VARIABLES
  trackers,                \* tracker index -> RessourceTracker object (tree)
  alloc_tracking_counter,  \* RessourceTracker.alloc_tracking_counter (class attribute)
  last,                    \* the last call made on a tracker and what it returned
  live,                    \* ids returned by alloc and not freed since, each with its
                           \* tracker and the product of the need vector it was given
  issued,                  \* the non-zero values alloc has returned, in order
  calls,                   \* SpecRTLog, SpecAdd: the calls made since construction, in order
  tests,                   \* the Test objects, by fully-qualified name
  jobs,                    \* Manager.jobs: the (jid, Test) items of the dict, in order
  dep_rules,               \* Manager.dep_rules: base name -> list of Test
  count,                   \* Manager._count
  run_filter,              \* GlobalConfig.root["validation"]["run_filter"], items in order
  pcoll,                   \* Manager._plugin: the plugin collection and what it was last asked
  concurrent_level,        \* Manager._concurrent_level: machine.concurrent_run
  phase,                   \* how far the run has come
  err,                     \* the exception that ended the last Manager call ("" for none)
  errarg,                  \* the argument that exception was built with
  sets,                    \* the Sets create_subset has returned and that are not merged yet
  published,               \* the jobs handed to the publisher's save, in order
  signals,                 \* the signals sent to process groups: (job, signal)
  disk,                    \* the files of a context directory
  ctx,                     \* the RemoteContext object of the process
  rset,                    \* RunnerRemote._set: the Set loaded from the input file
  rq,                      \* the queue of the Sets ready to run
  cq,                      \* the queue of the Sets that were run
  ev,                      \* the Event that progress_jobs sets
  sched_in_progress,       \* RunnerAdapter.sched_in_progress (class attribute)
  pc                       \* thread -> where it is in its code

rtvars == <<trackers, alloc_tracking_counter, last, live, issued, calls>>

mgrvars == <<tests, jobs, dep_rules, count, run_filter, pcoll, concurrent_level, phase, err, errarg, sets, published>>

remvars == <<disk, ctx, rset, rq, cq, ev, sched_in_progress, pc>>

runvars == <<signals, disk, ctx, rset, rq, cq, ev, sched_in_progress, pc>>

vars == <<trackers, alloc_tracking_counter, last, live, issued, calls,
          tests, jobs, dep_rules, count, run_filter, pcoll, concurrent_level, phase, err, errarg, sets, published,
          signals, disk, ctx, rset, rq, cq, ev, sched_in_progress, pc>>

(***************************************************************************)
(* The plugin collection the Manager holds (_plugin): the steps for which  *)
(* a plugin is enabled, the steps create_subset invoked during its last    *)
(* call, in order, and first_run_with_compilation of SchedMultiJobs.       *)
(***************************************************************************)
\* The collection with no scheduling plugin enabled.
NewCollection == [enabled |-> {}, invoked |-> <<>>, first_run_with_compilation |-> TRUE]

\* The collection with a plugin enabled for SCHED_SET_EVAL that has built Sets.
SetEvalCollection ==
  [enabled |-> {"SCHED_SET_EVAL"},
   invoked |-> <<"SCHED_SET_BEFORE", "SCHED_SET_EVAL", "SCHED_SET_AFTER">>,
   first_run_with_compilation |-> FALSE]

(***************************************************************************)
(* RessourceTracker (resource_tracker.py).  A node is a record carrying    *)
(* its dim as the object does; a leaf (dim = 0) has the field ressource,   *)
(* an inner node the field ressources.                                     *)
(***************************************************************************)
RECURSIVE NewTracker(_)
NewTracker(dims_values) ==
  IF Len(dims_values) = 0
  THEN [dim |-> 0, ressource |-> 0]
  ELSE [dim |-> Len(dims_values),
        ressources |-> [i \in 1..dims_values[1] |-> NewTracker(Tail(dims_values))]]

\* Mutant of free: an inner node does not descend into its children.
free_shallow(self, alloc_tracking_id) ==
  IF self.dim = 0
  THEN IF self.ressource = alloc_tracking_id
       THEN [self EXCEPT !.ressource = 0]
       ELSE self
  ELSE self

\* Mutant of free: a leaf is cleared whatever id it holds.
RECURSIVE free_any(_, _)
free_any(self, alloc_tracking_id) ==
  IF self.dim = 0
  THEN [self EXCEPT !.ressource = 0]
  ELSE [self EXCEPT !.ressources =
          [i \in 1..Len(self.ressources) |-> free_any(self.ressources[i], alloc_tracking_id)]]

RECURSIVE free(_, _)
free(self, alloc_tracking_id) ==
  IF self.dim = 0
  THEN IF self.ressource = alloc_tracking_id
       THEN [self EXCEPT !.ressource = 0]
       ELSE self
  ELSE [self EXCEPT !.ressources =
          [i \in 1..Len(self.ressources) |-> free(self.ressources[i], alloc_tracking_id)]]

\* Mutant of rollback: a failed attempt keeps what it claimed.
rollback_none(self, alloc_tracking_id) == self

\* The rollback loop that ends a failed attempt of an inner node.
rollback(self, alloc_tracking_id) ==
  [self EXCEPT !.ressources =
     [i \in 1..Len(self.ressources) |-> free(self.ressources[i], alloc_tracking_id)]]

\* Mutant of leaf_alloc: the leaf is taken without looking at its owner.
leaf_alloc_nocheck(self, alloc_tracking_id) ==
  [ok |-> TRUE, self |-> [self EXCEPT !.ressource = alloc_tracking_id]]

\* A leaf asked for zero remaining dimensions.
leaf_alloc(self, alloc_tracking_id) ==
  IF self.ressource = 0
  THEN [ok |-> TRUE, self |-> [self EXCEPT !.ressource = alloc_tracking_id]]
  ELSE [ok |-> FALSE, self |-> self]

RECURSIVE do_alloc(_, _, _)
RECURSIVE do_alloc_first(_, _, _, _)
RECURSIVE do_alloc_count(_, _, _, _, _)

\* alloc_dim < self.dim: the first child, from child i on, that takes the whole request.
do_alloc_first(self, allocation, alloc_tracking_id, i) ==
  IF i > Len(self.ressources)
  THEN [ok |-> FALSE, self |-> self]
  ELSE LET r == do_alloc(self.ressources[i], allocation, alloc_tracking_id)
           s == [self EXCEPT !.ressources[i] = r.self]
       IN  IF r.ok
           THEN [ok |-> TRUE, self |-> s]
           ELSE do_alloc_first(s, allocation, alloc_tracking_id, i + 1)

\* alloc_dim = self.dim: children i.. are tried in order, count_ressources of them
\* have succeeded so far; the test against allocation[0] follows every child.
do_alloc_count(self, allocation, alloc_tracking_id, i, count_ressources) ==
  IF i > Len(self.ressources)
  THEN [ok |-> FALSE, self |-> rollback(self, alloc_tracking_id)]
  ELSE LET r == do_alloc(self.ressources[i], Tail(allocation), alloc_tracking_id)
           s == [self EXCEPT !.ressources[i] = r.self]
           c == IF r.ok THEN count_ressources + 1 ELSE count_ressources
       IN  IF c = allocation[1]
           THEN [ok |-> TRUE, self |-> s]
           ELSE do_alloc_count(s, allocation, alloc_tracking_id, i + 1, c)

do_alloc(self, allocation, alloc_tracking_id) ==
  LET alloc_dim == Len(allocation) IN
  IF alloc_dim < self.dim
  THEN do_alloc_first(self, allocation, alloc_tracking_id, 1)
  ELSE IF alloc_dim = 0 /\ self.dim = 0
  THEN leaf_alloc(self, alloc_tracking_id)
  ELSE IF alloc_dim = self.dim
  THEN do_alloc_count(self, allocation, alloc_tracking_id, 1, 0)
  ELSE [ok |-> FALSE, self |-> self]

\* Mutant of next_tracking_number: the counter is left as it is.
next_tracking_number_same(tracking_number) == tracking_number

\* The id the next successful alloc issues after tracking_number.
next_tracking_number(tracking_number) == tracking_number + 1

\* alloc: ret is the value returned, counter the class attribute after the call.
alloc(self, allocation, counter) ==
  IF Len(allocation) > self.dim
  THEN [ret |-> 0, self |-> self, counter |-> counter]
  ELSE LET r == do_alloc(self, allocation, counter)
       IN  IF r.ok
           THEN [ret |-> counter, self |-> r.self,
                 counter |-> next_tracking_number(counter)]
           ELSE [ret |-> 0, self |-> r.self, counter |-> counter]

(***************************************************************************)
(* Reading a tree.                                                         *)
(***************************************************************************)
RECURSIVE Concat(_, _)
Concat(seqs, i) == IF i > Len(seqs) THEN <<>> ELSE seqs[i] \o Concat(seqs, i + 1)

\* The leaves of a tree, left to right.
RECURSIVE Leaves(_)
Leaves(self) ==
  IF self.dim = 0
  THEN <<self.ressource>>
  ELSE Concat([i \in 1..Len(self.ressources) |-> Leaves(self.ressources[i])], 1)

Holding(self, id) == LET l == Leaves(self) IN {i \in 1..Len(l) : l[i] = id}

\* The number of leaves that differ between two states of one tree.
Changed(before, after) ==
  LET lb == Leaves(before)
      la == Leaves(after)
  IN  Cardinality({i \in 1..Len(lb) : lb[i] # la[i]})

RECURSIVE Product(_)
Product(s) == IF Len(s) = 0 THEN 1 ELSE s[1] * Product(Tail(s))

(***************************************************************************)
(* The calls on the trackers.                                              *)
(***************************************************************************)
InitTrackers ==
  /\ trackers = [k \in Trackers |-> NewTracker(TrackerDims[k])]
  /\ alloc_tracking_counter = 1
  /\ last = [op |-> "new", tracker |-> 0, arg |-> <<>>, ret |-> 0, changed |-> 0]
  /\ live = {}
  /\ issued = <<>>
  /\ calls = <<>>

\* A context directory just made: no input file, no output file, no marker.
EmptyDir == [input |-> None, output |-> None, completed |-> FALSE]

\* No RemoteContext, no thread started, no signal sent yet.
InitRunner ==
  /\ signals = {}
  /\ disk = EmptyDir
  /\ ctx = None
  /\ rset = None
  /\ rq = <<>>
  /\ cq = <<>>
  /\ ev = FALSE
  /\ sched_in_progress = TRUE
  /\ pc = <<>>

\* A Manager just constructed, no test created.
NewManager == [jobs |-> <<>>, dep_rules |-> <<>>, count |-> [total |-> 0, executed |-> 0]]

InitRT ==
  /\ InitTrackers
  /\ tests = <<>>
  /\ jobs = NewManager.jobs
  /\ dep_rules = NewManager.dep_rules
  /\ count = NewManager.count
  /\ run_filter = <<>>
  /\ pcoll = NewCollection
  /\ concurrent_level = 1
  /\ phase = "new"
  /\ err = ""
  /\ errarg = <<>>
  /\ sets = {}
  /\ published = <<>>
  /\ InitRunner

\* trackers[k].alloc(need)
Alloc(k, need) ==
  \E r \in {alloc(trackers[k], need, alloc_tracking_counter)} :
  /\ trackers' = [trackers EXCEPT ![k] = r.self]
  /\ alloc_tracking_counter' = r.counter
  /\ last' = [op |-> "alloc", tracker |-> k, arg |-> need, ret |-> r.ret,
              changed |-> Changed(trackers[k], r.self)]
  /\ live' = IF r.ret # 0
             THEN live \cup {[id |-> r.ret, tracker |-> k, size |-> Product(need)]}
             ELSE live
  /\ issued' = IF r.ret # 0 THEN Append(issued, r.ret) ELSE issued

\* trackers[k].free(id)
Free(k, id) ==
  /\ trackers' = [trackers EXCEPT ![k] = free(trackers[k], id)]
  /\ last' = [op |-> "free", tracker |-> k, arg |-> <<id>>, ret |-> 0,
              changed |-> Changed(trackers[k], trackers'[k])]
  /\ live' = {l \in live : ~(l.id = id /\ l.tracker = k)}
  /\ UNCHANGED <<alloc_tracking_counter, issued>>

AllocStep ==
  /\ alloc_tracking_counter <= MaxId
  /\ \E k \in Trackers, need \in Needs : Alloc(k, need)
  /\ UNCHANGED calls
  /\ UNCHANGED mgrvars
  /\ UNCHANGED runvars

FreeStep ==
  /\ \E k \in Trackers, id \in 0..alloc_tracking_counter : Free(k, id)
  /\ UNCHANGED calls
  /\ UNCHANGED mgrvars
  /\ UNCHANGED runvars

NextRT == AllocStep \/ FreeStep

SpecRT == InitRT /\ [][NextRT]_vars

\* The recorded runs on the first tracker: allocs of LogNeeds, frees of ids in use.
LoggedAlloc ==
  /\ Len(calls) < MaxCalls
  /\ \E need \in LogNeeds : Alloc(1, need)
  /\ calls' = Append(calls, last')
  /\ UNCHANGED mgrvars
  /\ UNCHANGED runvars

LoggedFree ==
  /\ Len(calls) < MaxCalls
  /\ \E id \in {l.id : l \in live} : Free(1, id)
  /\ calls' = Append(calls, last')
  /\ UNCHANGED mgrvars
  /\ UNCHANGED runvars

NextRTLog == LoggedAlloc \/ LoggedFree

SpecRTLog == InitRT /\ [][NextRTLog]_vars

(***************************************************************************)
(* Test (testing/test.py): identity and dependency lists.  A Test object   *)
(* is referred to by its fully-qualified name, which is unique per object. *)
(***************************************************************************)
\* compute_fq_name with no suffix: path is normpath(join(label, subtree, name)).
compute_fq_name(path, combination) ==
  IF combination = "" THEN path ELSE path \o "_" \o combination

\* The md5 digest of a name, kept symbolic: equal names, equal ids.
get_jid_from_name(name) == <<"md5", name>>

\* validation.time.soft_timeout of a test that gives none.
NoTimeout == None

\* GlobalConfig.root["validation"]["hard_timeout"], in seconds: Test.hard_timeout
\* of a test that gives none of its own.
HardTimeout == 2

\* Test.NOSTART_STR and Test.DISCARDED_STR
NOSTART_STR == "This test cannot be started."

DISCARDED_STR == "This test has failed to be scheduled. Discarded."

\* Test(...): the fields the Manager and the runner read and write; exectime
\* and the timeouts are in seconds.
NewTest(path, combination, resources, job_deps, tags) ==
  [name      |-> compute_fq_name(path, combination),
   basename  |-> compute_fq_name(path, ""),
   jid       |-> get_jid_from_name(compute_fq_name(path, combination)),
   resources |-> resources,
   depnames  |-> job_deps,
   tags      |-> tags,
   rc        |-> 0,
   exectime  |-> 0,
   output    |-> "",
   state     |-> "WAITING",
   deps      |-> <<>>,
   dependee  |-> <<>>,
   has_hard_timeout |-> FALSE,
   invocation_cmd |-> None,
   soft_timeout |-> NoTimeout,
   hard_timeout |-> HardTimeout,
   alloc_tracking |-> 0]

\* The resources of a test created with resources = None: [1, cores_per_nodes],
\* the machine giving no cores_per_nodes.
DefaultResources == <<1, 1>>

\* x in list
In(x, list) == \E i \in 1..Len(list) : list[i] = x

\* list.remove(x): the first occurrence goes; ok is FALSE where Python raises ValueError.
ListRemove(list, x) ==
  IF ~In(x, list)
  THEN [ok |-> FALSE, list |-> list]
  ELSE LET i == CHOOSE k \in 1..Len(list) :
                   list[k] = x /\ \A m \in 1..(k - 1) : list[m] # x
       IN  [ok |-> TRUE, list |-> SubSeq(list, 1, i - 1) \o SubSeq(list, i + 1, Len(list))]

\* job.resolve_a_dep(name, obj) on the objects T.
resolve_a_dep(T, job, name, obj) ==
  IF ~In(name, T[job].depnames)
  THEN T
  ELSE IF ~In(obj, T[job].deps)
  THEN [T EXCEPT ![job].deps = Append(@, obj)]
  ELSE T

(***************************************************************************)
(* Manager (orchestration/manager.py): the pool.                           *)
(***************************************************************************)
\* key in self.jobs
HasJid(J, jid) == \E i \in 1..Len(J) : J[i].jid = jid

\* self.jobs[key]
JobAt(J, jid) == J[CHOOSE i \in 1..Len(J) : J[i].jid = jid].job

save_dependency_rule(rules, pattern, job) ==
  IF pattern \in DOMAIN rules
  THEN [rules EXCEPT ![pattern] = Append(@, job)]
  ELSE rules @@ (pattern :> <<job>>)

\* Mutant of add_job: the job is counted whether it is known or not.
add_job_counting(M, t) ==
  IF HasJid(M.jobs, t.jid)
  THEN [M EXCEPT !.count.total = @ + 1]
  ELSE [jobs      |-> Append(M.jobs, [jid |-> t.jid, job |-> t.name]),
        count     |-> [M.count EXCEPT !.total = @ + 1],
        dep_rules |-> save_dependency_rule(M.dep_rules, t.basename, t.name)]

\* add_job on the Manager M (a record of jobs, dep_rules, count) for the Test t.
add_job(M, t) ==
  IF HasJid(M.jobs, t.jid)
  THEN M
  ELSE [jobs      |-> Append(M.jobs, [jid |-> t.jid, job |-> t.name]),
        count     |-> [M.count EXCEPT !.total = @ + 1],
        dep_rules |-> save_dependency_rule(M.dep_rules, t.basename, t.name)]

\* Mutant of job_dep_list: a name that matches nothing designates no job.
job_dep_list_lenient(J, rules, depname) ==
  IF HasJid(J, get_jid_from_name(depname))
  THEN [found |-> TRUE, list |-> <<JobAt(J, get_jid_from_name(depname))>>]
  ELSE IF depname \in DOMAIN rules
  THEN [found |-> TRUE, list |-> rules[depname]]
  ELSE [found |-> TRUE, list |-> <<>>]

\* The jobs a dependency name stands for: exact id first, base-name bucket next;
\* found is FALSE where UndefDependencyError is raised.
job_dep_list(J, rules, depname) ==
  IF HasJid(J, get_jid_from_name(depname))
  THEN [found |-> TRUE, list |-> <<JobAt(J, get_jid_from_name(depname))>>]
  ELSE IF depname \in DOMAIN rules
  THEN [found |-> TRUE, list |-> rules[depname]]
  ELSE [found |-> FALSE, list |-> <<>>]

\* Mutant of seen_before: only the job being resolved is looked at.
seen_before_last(name, seen_deps) ==
  Len(seen_deps) > 0 /\ seen_deps[Len(seen_deps)] = name

\* job_dep.name in seen_deps
seen_before(name, seen_deps) == In(name, seen_deps)

\* Mutant of chain_after_call: the callee was handed the caller's own list.
chain_after_call_shared(seen_deps, callee_seen) == callee_seen

\* The caller's chain once the recursive call has returned: the callee worked
\* on list(seen_deps), a copy, so the caller's list is what it was.
chain_after_call(seen_deps, callee_seen) == seen_deps

RECURSIVE resolve_single_job_deps(_, _, _, _)
RECURSIVE resolve_depnames(_, _, _, _, _)
RECURSIVE resolve_dep_list(_, _, _, _, _, _, _)

\* The inner loop over job_dep_list, from its element k on.
resolve_dep_list(T, job, depname, list, seen_deps, k, depth) ==
  IF k > Len(list)
  THEN [err |-> "", arg |-> <<>>, tests |-> T, seen |-> seen_deps]
  ELSE IF seen_before(T[list[k]].name, seen_deps)
  THEN [err |-> "CircularDependencyError", arg |-> seen_deps, tests |-> T,
        seen |-> seen_deps]
  ELSE LET r == resolve_single_job_deps(T, list[k], seen_deps, depth + 1)
       IN  IF r.err # ""
           THEN r
           ELSE resolve_dep_list(resolve_a_dep(r.tests, job, depname, list[k]), job,
                                 depname, list, chain_after_call(seen_deps, r.seen),
                                 k + 1, depth)

\* The outer loop over job.job_depnames, from its element i on.
resolve_depnames(T, job, seen_deps, i, depth) ==
  IF i > Len(T[job].depnames)
  THEN [err |-> "", arg |-> <<>>, tests |-> T, seen |-> seen_deps]
  ELSE LET depname == T[job].depnames[i]
           l       == job_dep_list(jobs, dep_rules, depname)
       IN  IF ~l.found
           THEN [err |-> "UndefDependencyError", arg |-> <<depname>>, tests |-> T,
                 seen |-> seen_deps]
           ELSE LET r == resolve_dep_list(T, job, depname, l.list, seen_deps, 1, depth)
                IN  IF r.err # ""
                    THEN r
                    ELSE resolve_depnames(r.tests, job, r.seen, i + 1, depth)

\* resolve_single_job_deps(job, seen_deps) at recursion depth depth; seen is the
\* list the caller passed, as the call leaves it.
resolve_single_job_deps(T, job, seen_deps, depth) ==
  IF depth > RecursionLimit
  THEN [err |-> "RecursionError", arg |-> <<>>, tests |-> T, seen |-> seen_deps]
  ELSE resolve_depnames(T, job, Append(seen_deps, T[job].name), 1, depth)

RECURSIVE resolve_deps(_, _)

\* Mutant of resolve_deps: the job whose dependencies cannot be resolved is
\* marked as discarded before the error is raised.
resolve_deps_discarding(T, i) ==
  IF i > Len(jobs)
  THEN [err |-> "", arg |-> <<>>, tests |-> T]
  ELSE LET r == resolve_single_job_deps(T, jobs[i].job, <<>>, 1)
       IN  IF r.err # ""
           THEN [err |-> r.err, arg |-> r.arg,
                 tests |-> [r.tests EXCEPT ![jobs[i].job].state = "ERR_OTHER",
                                           ![jobs[i].job].rc = -1]]
           ELSE resolve_deps(r.tests, i + 1)

\* resolve_deps: the loop over self.jobs.items(), from item i on.
resolve_deps(T, i) ==
  IF i > Len(jobs)
  THEN [err |-> "", arg |-> <<>>, tests |-> T]
  ELSE LET r == resolve_single_job_deps(T, jobs[i].job, <<>>, 1)
       IN  IF r.err # ""
           THEN [err |-> r.err, arg |-> r.arg, tests |-> r.tests]
           ELSE resolve_deps(r.tests, i + 1)

(***************************************************************************)
(* The pools the Manager is given.                                         *)
(***************************************************************************)
\* The tests of the suite, in the order they are added: path and combination.
Suite ==
  << [path |-> "a", comb |-> ""],
     [path |-> "b", comb |-> "n1"],
     [path |-> "b", comb |-> "n2"],
     [path |-> "c", comb |-> ""] >>

\* The dependency names the tests draw from: a job name that is its own base
\* name, a base name shared by two jobs, a full job name, a name of nothing.
DepNames == <<"a", "zz", "b", "b_n2">>

\* The lists of at most n dependency names, each name at most once.
DepLists(n) ==
  {SelectSeq(DepNames, LAMBDA d : d \in S) : S \in {X \in SUBSET {DepNames[i] : i \in 1..Len(DepNames)} : Cardinality(X) <= n}}

RECURSIVE AddAll(_, _, _)
AddAll(M, ts, i) == IF i > Len(ts) THEN M ELSE AddAll(add_job(M, ts[i]), ts, i + 1)

\* The Manager after add_job of every test of ts, and the run not started.
Loaded(ts, filter) ==
  LET M == AddAll(NewManager, ts, 1) IN
  /\ tests = [n \in {ts[i].name : i \in 1..Len(ts)} |->
                ts[CHOOSE i \in 1..Len(ts) : ts[i].name = n]]
  /\ jobs = M.jobs
  /\ dep_rules = M.dep_rules
  /\ count = M.count
  /\ run_filter = filter
  /\ pcoll = NewCollection
  /\ concurrent_level = 1
  /\ phase = "loaded"
  /\ err = ""
  /\ errarg = <<>>
  /\ sets = {}
  /\ published = <<>>
  /\ InitRunner

\* The add_job calls of SpecAdd.
MaxAdds == 4

\* The Test objects handed to add_job: the tests of the suite, each as an
\* object with no dependency and as another object that depends on a.
AddCandidates ==
  {NewTest(Suite[i].path, Suite[i].comb, DefaultResources, dn, <<>>) :
     i \in 1..Len(Suite), dn \in {<<>>, <<"a">>}}

\* Manager.add_job(t) on a Manager that has not started its run; an object of
\* a name that is known already is another object than the one in the pool.
AddJob(t) ==
  /\ phase = "new" /\ Len(calls) < MaxAdds
  /\ \E M \in {add_job([jobs |-> jobs, dep_rules |-> dep_rules, count |-> count], t)} :
       /\ jobs' = M.jobs
       /\ dep_rules' = M.dep_rules
       /\ count' = M.count
  /\ tests' = IF t.name \in DOMAIN tests THEN tests ELSE tests @@ (t.name :> t)
  /\ calls' = Append(calls, t)
  /\ UNCHANGED <<trackers, alloc_tracking_counter, last, live, issued>>
  /\ UNCHANGED <<run_filter, pcoll, concurrent_level, phase, err, errarg, sets, published>>
  /\ UNCHANGED runvars

AddJobStep == \E t \in AddCandidates : AddJob(t)

NextAdd == AddJobStep

\* The Manager just constructed, and the jobs added one call after the other.
SpecAdd == InitRT /\ [][NextAdd]_vars

\* Every pool of the suite whose tests declare at most MaxDeps dependency names.
InitDeps ==
  /\ InitTrackers
  /\ \E dn \in [1..Len(Suite) -> DepLists(MaxDeps)] :
       Loaded([i \in 1..Len(Suite) |->
                 NewTest(Suite[i].path, Suite[i].comb, DefaultResources, dn[i], <<>>)], <<>>)

\* The run is at the step p of its sequence (loaded, resolved, filtered,
\* running) and no exception has ended it.
RunAt(p) == phase = p /\ err = ""

\* Manager.resolve_deps(), the first call of a run.
ResolveDeps ==
  /\ RunAt("loaded")
  /\ \E r \in {resolve_deps(tests, 1)} :
       /\ tests' = r.tests
       /\ err' = r.err
       /\ errarg' = r.arg
       /\ phase' = "resolved"
  /\ UNCHANGED <<jobs, dep_rules, count, run_filter, pcoll, concurrent_level, sets, published>>
  /\ UNCHANGED runvars
  /\ UNCHANGED rtvars

NextDeps == ResolveDeps

SpecDeps == InitDeps /\ [][NextDeps]_vars

(***************************************************************************)
(* Tag filtering (Manager.filter_tags, Test.should_run).  run_filter is    *)
(* the dict built by parse_tags, as the list of its items.                 *)
(***************************************************************************)
\* Mutant of should_run: the dependees are not looked at.
RECURSIVE should_run_filters(_, _, _, _)
should_run_filters(t, filter, i, contain_allow_filter) ==
  IF i > Len(filter)
  THEN ~contain_allow_filter
  ELSE IF filter[i][2]
  THEN IF In(filter[i][1], t.tags) THEN TRUE
       ELSE should_run_filters(t, filter, i + 1, TRUE)
  ELSE IF In(filter[i][1], t.tags) THEN FALSE
       ELSE should_run_filters(t, filter, i + 1, contain_allow_filter)

should_run_own_tags(t, filter) == should_run_filters(t, filter, 1, FALSE)

\* Test.should_run()
should_run(t, filter) ==
  IF Len(t.dependee) > 0 THEN TRUE ELSE should_run_filters(t, filter, 1, FALSE)

\* test.add_dependee(job)
add_dependee(T, test, job) == [T EXCEPT ![test].dependee = Append(@, job)]

\* job.transpose_deps(), from the dependency k on.
RECURSIVE transpose_deps(_, _, _)
transpose_deps(T, job, k) ==
  IF k > Len(T[job].deps) THEN T
  ELSE transpose_deps(add_dependee(T, T[job].deps[k], job), job, k + 1)

\* _transpose_dep_graph(), from the item i of self.jobs on.
RECURSIVE transpose_dep_graph(_, _, _)
transpose_dep_graph(T, J, i) ==
  IF i > Len(J) THEN T
  ELSE transpose_dep_graph(transpose_deps(T, J[i].job, 1), J, i + 1)

\* Mutant of remove_test_from_deps: the dependee lists are left as they are.
remove_test_from_deps_none(T, job, k) == [err |-> "", tests |-> T]

\* job.remove_test_from_deps(), from the dependency k on; remove_dependee is
\* list.remove, which raises ValueError when the job is not in the list.
RECURSIVE remove_test_from_deps(_, _, _)
remove_test_from_deps(T, job, k) ==
  IF k > Len(T[job].deps) THEN [err |-> "", tests |-> T]
  ELSE LET dep == T[job].deps[k]
           r   == ListRemove(T[dep].dependee, job)
       IN  IF ~r.ok THEN [err |-> "ValueError", tests |-> T]
           ELSE remove_test_from_deps([T EXCEPT ![dep].dependee = r.list], job, k + 1)

\* self.jobs.pop(jid)
jobs_pop(J, jid) == SelectSeq(J, LAMBDA e : e.jid # jid)

\* One pass of "for jid, job in self.jobs.items()" from the item i of the dict
\* as it was when the pass began (J0); J is the dict now.  The iterator
\* raises RuntimeError on its next step once the dict has changed size.
RECURSIVE filter_pass(_, _, _, _, _, _)
filter_pass(T, J0, J, cnt, i, change) ==
  IF Len(J) # Len(J0)
  THEN [err |-> "RuntimeError", tests |-> T, jobs |-> J, count |-> cnt, change |-> change]
  ELSE IF i > Len(J0)
  THEN [err |-> "", tests |-> T, jobs |-> J, count |-> cnt, change |-> change]
  ELSE IF should_run(T[J0[i].job], run_filter)
  THEN filter_pass(T, J0, J, cnt, i + 1, change)
  ELSE LET r == remove_test_from_deps(T, J0[i].job, 1)
       IN  IF r.err # ""
           THEN [err |-> r.err, tests |-> r.tests, jobs |-> J, count |-> cnt,
                 change |-> change]
           ELSE filter_pass(r.tests, J0, jobs_pop(J, J0[i].jid),
                            [cnt EXCEPT !.total = @ - 1], i + 1, TRUE)

\* The "while change" loop of filter_tags.
RECURSIVE filter_loop(_, _, _)
filter_loop(T, J, cnt) ==
  LET r == filter_pass(T, J, J, cnt, 1, FALSE)
  IN  IF r.err # "" \/ ~r.change THEN r ELSE filter_loop(r.tests, r.jobs, r.count)

\* filter_tags()
filter_tags(T, J, cnt) == filter_loop(transpose_dep_graph(T, J, 1), J, cnt)

\* Manager.filter_tags(), called once the dependencies are resolved.
FilterTags ==
  /\ RunAt("resolved")
  /\ \E r \in {filter_tags(tests, jobs, count)} :
       /\ tests' = r.tests
       /\ jobs' = r.jobs
       /\ count' = r.count
       /\ err' = r.err
  /\ phase' = "filtered"
  /\ UNCHANGED <<dep_rules, run_filter, pcoll, concurrent_level, errarg, sets, published>>
  /\ UNCHANGED runvars
  /\ UNCHANGED rtvars

\* The tags a test carries and the run filters of the command line.
TagLists == {<<>>, <<"x">>, <<"y">>, <<"x", "y">>}

RunFilters ==
  { <<>>, << <<"y", TRUE>> >>, << <<"x", FALSE>> >>,
    << <<"x", FALSE>>, <<"y", TRUE>> >>, << <<"y", TRUE>>, <<"x", FALSE>> >> }

\* The first tests of the suite, with at most MaxFilterDeps dependency names
\* each, any tags and any run filter.
FilterSuite == SubSeq(Suite, 1, 3)

InitFilter ==
  /\ InitTrackers
  /\ \E dn \in [1..Len(FilterSuite) -> DepLists(MaxFilterDeps)],
        tg \in [1..Len(FilterSuite) -> TagLists], f \in RunFilters :
       Loaded([i \in 1..Len(FilterSuite) |->
                 NewTest(FilterSuite[i].path, FilterSuite[i].comb, DefaultResources, dn[i],
                         tg[i])], f)

NextFilter == ResolveDeps \/ FilterTags

SpecFilter == InitFilter /\ [][NextFilter]_vars

(***************************************************************************)
(* Scheduling (Manager.create_subset, default algorithm) and publication.  *)
(***************************************************************************)
\* None, where a job is expected.
NoJob == "None"

\* Test.been_executed() taking EXECUTED for a computed result.
been_executed_with_raw_result(t) == t.state \notin {"WAITING", "IN_PROGRESS"}

\* Test.been_executed()
been_executed(t) == t.state \notin {"WAITING", "IN_PROGRESS", "EXECUTED"}

\* TestState.bad_states()
bad_states == {"ERR_DEP", "ERR_OTHER", "FAILURE", "HARD_TIMEOUT"}

\* Mutant of has_completed_deps: only a successful dependency counts as completed.
has_completed_deps_successful(T, job) ==
  \A i \in 1..Len(T[job].deps) : T[T[job].deps[i]].state = "SUCCESS"

\* Test.has_completed_deps()
has_completed_deps(T, job) ==
  \A i \in 1..Len(T[job].deps) : been_executed(T[T[job].deps[i]])

\* Mutant of has_failed_dep: only a dependency in FAILURE counts.
has_failed_dep_failure_only(T, job) ==
  \E i \in 1..Len(T[job].deps) : T[T[job].deps[i]].state = "FAILURE"

\* Test.has_failed_dep()
has_failed_dep(T, job) ==
  \E i \in 1..Len(T[job].deps) : T[T[job].deps[i]].state \in bad_states

\* Test.first_incomplete_dep(): the first dependency still waiting, None when
\* the incomplete ones are all running.
first_incomplete_dep(T, job) ==
  LET w == {i \in 1..Len(T[job].deps) : T[T[job].deps[i]].state = "WAITING"}
  IN  IF w = {} THEN NoJob
      ELSE T[job].deps[CHOOSE i \in w : \A k \in w : i <= k]

\* Test.get_nb_nodes()
get_nb_nodes(t) == IF Len(t.resources) > 0 THEN t.resources[1] ELSE 1

\* The item __get_next_job takes: the first of sorted(..., reverse=True), a
\* stable sort, so the first item of the dict among those with the most nodes.
next_job_index(T, J) ==
  CHOOSE i \in 1..Len(J) :
    \A k \in 1..Len(J) :
      /\ get_nb_nodes(T[J[k].job]) <= get_nb_nodes(T[J[i].job])
      /\ k < i => get_nb_nodes(T[J[k].job]) < get_nb_nodes(T[J[i].job])

\* validation.get("expect_exit", 0)
expect_rc == 0

\* Test.save_raw_run(out, rc, time, hard_timeout): None leaves a field alone
\* (out is a string or "None", rc and time are optional numbers).
save_raw_run(t, out, rc, time, hard_timeout) ==
  [t EXCEPT !.output = IF out # "None" THEN out ELSE @,
            !.rc = IF rc # None THEN rc[1] ELSE @,
            !.exectime = IF time # None THEN time[1] ELSE @,
            !.has_hard_timeout = hard_timeout]

\* Test.save_status(state)
save_status(t, state) == [t EXCEPT !.state = state]

\* Test.save_final_result(rc, time, out, state); state "None" lets the return
\* code decide.
save_final_result(t, rc, time, out, state) ==
  save_status(save_raw_run(t, out, Some(rc), Some(time), FALSE),
              IF state = "None"
              THEN (IF expect_rc = rc THEN "SUCCESS" ELSE "FAILURE")
              ELSE state)

\* Manager.get_count(tag)
get_count(cnt, tag) == IF tag \in DOMAIN cnt THEN cnt[tag] ELSE 0

\* Manager.get_leftjob_count()
get_leftjob_count(cnt) == cnt.total - cnt.executed

\* "job.state not in self._count": the keys of _count are strings and the
\* state is an IntEnum member, which equals no string.
state_not_in_count(cnt, state) == TRUE

\* The counters of publish_job.
publish_count(cnt, state) ==
  LET c0 == [cnt EXCEPT !.executed = @ + 1]
      c1 == IF state_not_in_count(c0, state) THEN (state :> 0) @@ c0 ELSE c0
  IN  [c1 EXCEPT ![state] = @ + 1]

\* publish_job(job, publish_args=None) on the scan state S (tests T, counters
\* cnt, publisher's saves pub).
publish_job(S, job) ==
  [S EXCEPT !.cnt = publish_count(@, S.T[job].state), !.pub = Append(@, job)]

\* Mutant of publish_failed_to_run_job: the state is left to the return code.
publish_failed_to_run_job_by_rc(S, job, out, state) ==
  publish_job([S EXCEPT !.T[job] = save_final_result(@, -1, 0, out, "None")], job)

\* publish_failed_to_run_job(job, out, state)
publish_failed_to_run_job(S, job, out, state) ==
  publish_job([S EXCEPT !.T[job] = save_final_result(@, -1, 0, out, state)], job)

\* self.__add_job(job): self.jobs[job.jid] = job
add_job_private(T, J, job) ==
  IF HasJid(J, T[job].jid) THEN J ELSE Append(J, [jid |-> T[job].jid, job |-> job])

\* Mutant of dep_walk: the first incomplete dependency is taken as it is.
dep_walk_stop(T, dep_job) == dep_job

\* The walk down the chain of first incomplete dependencies.
RECURSIVE dep_walk(_, _)
dep_walk(T, dep_job) ==
  IF dep_job # NoJob /\ ~has_completed_deps(T, dep_job)
  THEN dep_walk(T, first_incomplete_dep(T, dep_job))
  ELSE dep_job

\* Mutant of pick: the state of the job is left as it is.
pick_idle(t) == t

\* Test.pick()
pick(t) == [t EXCEPT !.state = "IN_PROGRESS"]

\* The end of the loop body: the SCHED_JOB_EVAL plugin, if one is enabled
\* (S.eval is then what it returns), else the allocation for the job; then
\* either the job is picked and put alone in a new Set, or it is kept for
\* rescheduling; the loop is left in both cases.
try_schedule(S, job) ==
  LET user_sched_job == S.eval # None
      r == alloc(S.tracker, S.T[job].resources, S.counter)
      pick_job == IF user_sched_job THEN S.eval[1] ELSE r.ret > 0
      S1 == IF user_sched_job
            THEN [S EXCEPT !.invoked = Append(@, "SCHED_JOB_EVAL")]
            ELSE [S EXCEPT !.tracker = r.self, !.counter = r.counter,
                           !.allocs = Append(@, [need |-> S.T[job].resources, ret |-> r.ret,
                                                 changed |-> Changed(S.tracker, r.self),
                                                 job |-> job])]
      S2 == IF ~user_sched_job /\ pick_job THEN [S1 EXCEPT !.T[job].alloc_tracking = r.ret]
            ELSE S1
  IN  IF S2.T[job].state # "IN_PROGRESS" /\ pick_job
      THEN [S2 EXCEPT !.T[job] = pick(@), !.set = <<job>>]
      ELSE [S2 EXCEPT !.resched = Append(@, job)]

\* The while loop of __default_create_subset; S.walks keeps, for every job
\* found with pending dependencies, the dependency the walk ended on.
RECURSIVE scan(_)
scan(S) ==
  IF Len(S.J) = 0 THEN S
  ELSE LET i   == next_job_index(S.T, S.J)
           job == S.J[i].job
           S1  == [S EXCEPT !.J = jobs_pop(@, S.J[i].jid)]
       IN  IF S.T[job].state # "WAITING" THEN scan(S1)
           ELSE LET pending == ~has_completed_deps(S.T, job)
                    cand == IF pending THEN dep_walk(S.T, first_incomplete_dep(S.T, job))
                            ELSE job
                    S2 == IF pending
                          THEN [S1 EXCEPT !.resched = Append(@, job),
                                          !.walks = Append(@, [job |-> job, dep |-> cand])]
                          ELSE S1
                IN  IF cand = NoJob THEN scan(S2)
                    ELSE IF has_failed_dep(S.T, cand)
                    THEN scan(publish_failed_to_run_job(S2, cand, NOSTART_STR, "ERR_DEP"))
                    ELSE try_schedule(S2, cand)

\* Mutant of readd: the jobs kept for rescheduling are not added back.
readd_none(S, k) == S

\* The jobs kept for rescheduling are added back, from the k-th on.
RECURSIVE readd(_, _)
readd(S, k) ==
  IF k > Len(S.resched) THEN S
  ELSE readd([S EXCEPT !.J = add_job_private(S.T, @, S.resched[k])], k + 1)

\* __default_create_subset(resources_tracker); eval is None when no
\* SCHED_JOB_EVAL plugin is enabled, else what the plugin returns.
default_create_subset(T, J, cnt, pub, tracker, counter, eval) ==
  readd(scan([T |-> T, J |-> J, cnt |-> cnt, pub |-> pub, tracker |-> tracker,
              counter |-> counter, resched |-> <<>>, allocs |-> <<>>, set |-> <<>>,
              eval |-> eval, invoked |-> <<>>, walks |-> <<>>]), 1)

\* SchedMultiJobs.first_allocation(jobman): the loop over jobman.jobs.items()
\* from the item i of the dict as it was when the loop began (J0); J is the
\* dict now.  The iterator raises RuntimeError on its next step once the dict
\* has changed size.
RECURSIVE first_allocation(_, _, _, _, _)
first_allocation(T, J0, J, the_set, i) ==
  IF Len(J) # Len(J0)
  THEN [err |-> "RuntimeError", T |-> T, J |-> J, set |-> the_set]
  ELSE IF i > Len(J0)
  THEN [err |-> "", T |-> T, J |-> J, set |-> the_set]
  ELSE IF In("compilation", T[J0[i].job].tags)
  THEN first_allocation([T EXCEPT ![J0[i].job] = pick(@)], J0, jobs_pop(J, J0[i].jid),
                        Append(the_set, J0[i].job), i + 1)
  ELSE first_allocation(T, J0, J, the_set, i + 1)

\* The loop of SchedMultiJobs.run over jobman.jobs.items(), in the same way;
\* it is left once the Set has job_limit jobs.
RECURSIVE next_allocation(_, _, _, _, _, _)
next_allocation(T, J0, J, the_set, i, job_limit) ==
  IF Len(J) # Len(J0)
  THEN [err |-> "RuntimeError", T |-> T, J |-> J, set |-> the_set]
  ELSE IF i > Len(J0)
  THEN [err |-> "", T |-> T, J |-> J, set |-> the_set]
  ELSE IF has_completed_deps(T, J0[i].job)
  THEN LET T1 == [T EXCEPT ![J0[i].job] = pick(@)]
           J1 == jobs_pop(J, J0[i].jid)
           s1 == Append(the_set, J0[i].job)
       IN  IF Len(s1) >= job_limit
           THEN [err |-> "", T |-> T1, J |-> J1, set |-> s1]
           ELSE next_allocation(T1, J0, J1, s1, i + 1, job_limit)
  ELSE next_allocation(T, J0, J, the_set, i + 1, job_limit)

\* SchedMultiJobs.run(jobman=..., max_job_limit=...): first is
\* first_run_with_compilation as the call leaves it.
SchedMultiJobs_run(T, J, first_run_with_compilation, job_limit) ==
  IF first_run_with_compilation
  THEN first_allocation(T, J, J, <<>>, 1) @@ [execmode |-> "REMOTE", first |-> FALSE]
  ELSE next_allocation(T, J, J, <<>>, 1, job_limit) @@ [execmode |-> "ALLOC", first |-> FALSE]

\* create_subset(resources_tracker) on the Manager with the plugin collection
\* P and the concurrency level: the hook before, the plugin enabled for
\* SCHED_SET_EVAL or the default algorithm, the hook after.  An exception
\* raised by the plugin leaves create_subset at once.
create_subset(T, J, cnt, pub, tracker, counter, P, level, eval) ==
  IF "SCHED_SET_EVAL" \in P.enabled
  THEN LET r == SchedMultiJobs_run(T, J, P.first_run_with_compilation, cnt.total \div level) IN
       [err |-> r.err, T |-> r.T, J |-> r.J, cnt |-> cnt, pub |-> pub, tracker |-> tracker,
        counter |-> counter, allocs |-> <<>>, set |-> IF r.err = "" THEN r.set ELSE <<>>,
        execmode |-> r.execmode,
        pcoll |-> [P EXCEPT !.first_run_with_compilation = r.first,
                            !.invoked = <<"SCHED_SET_BEFORE", "SCHED_SET_EVAL">>
                                          \o (IF r.err = "" THEN <<"SCHED_SET_AFTER">> ELSE <<>>)]]
  ELSE LET r == default_create_subset(T, J, cnt, pub, tracker, counter, eval) IN
       [err |-> "", T |-> r.T, J |-> r.J, cnt |-> r.cnt, pub |-> r.pub, tracker |-> r.tracker,
        counter |-> r.counter, allocs |-> r.allocs, set |-> r.set, execmode |-> "LOCAL",
        pcoll |-> [P EXCEPT !.invoked = <<"SCHED_SET_BEFORE">> \o r.invoked
                                          \o <<"SCHED_SET_AFTER">>]]

\* The polling loop of RunnerAdapter.local_exec on a command that ends during
\* its cmd.duration-th second, after k calls of p.communicate(timeout=1) have
\* timed out: the next call returns when the process ends within it; else the
\* time elapsed, a little over k + 1 seconds, is compared with the hard
\* timeout, the process group is sent SIGTERM and the time is set to the hard
\* timeout. rc is only assigned when the process ended by itself.
RECURSIVE wait(_, _, _)
wait(cmd, hard_timeout, k) ==
  IF cmd.duration <= k + 1
  THEN [rc |-> Some(cmd.rc), run_time |-> cmd.duration, hard_timeout |-> FALSE,
        signal |-> "None"]
  ELSE IF k + 1 >= hard_timeout
  THEN [rc |-> None, run_time |-> hard_timeout, hard_timeout |-> TRUE,
        signal |-> "SIGTERM"]
  ELSE wait(cmd, hard_timeout, k + 1)

\* os.killpg(os.getpgid(p.pid), sig): the signals that local_exec sends while
\* it runs the jobs of the Set, the k-th job running the command o[k].
killpg(T, content, o) ==
  {[job |-> content[k], signal |-> wait(o[k], T[content[k]].hard_timeout, 0).signal] :
     k \in {i \in 1..Len(content) :
              wait(o[i], T[content[i]].hard_timeout, 0).signal # "None"}}

\* The output of a command, whatever it is.
stdout == "stdout"

\* RunnerAdapter.local_exec(jobs), from the k-th job of the Set on, the k-th
\* job running the command o[k]: save_status(EXECUTED), then save_raw_run.
RECURSIVE local_exec(_, _, _, _)
local_exec(T, content, o, k) ==
  IF k > Len(content) THEN T
  ELSE LET w == wait(o[k], T[content[k]].hard_timeout, 0) IN
       local_exec([T EXCEPT ![content[k]] =
                     save_raw_run(save_status(@, "EXECUTED"), stdout, w.rc, Some(w.run_time),
                                  w.hard_timeout)],
                  content, o, k + 1)

\* Mutant of evaluate: the hard timeout is not looked at.
evaluate_by_rc(t) ==
  IF expect_rc # t.rc THEN [t EXCEPT !.state = "FAILURE"]
  ELSE IF t.soft_timeout # None /\ t.exectime > t.soft_timeout[1]
  THEN [t EXCEPT !.state = "SOFT_TIMEOUT"]
  ELSE [t EXCEPT !.state = "SUCCESS"]

\* Test.evaluate() of a test with no matcher, analysis or script.
evaluate(t) ==
  IF t.has_hard_timeout THEN [t EXCEPT !.state = "HARD_TIMEOUT"]
  ELSE IF expect_rc # t.rc THEN [t EXCEPT !.state = "FAILURE"]
  ELSE IF t.soft_timeout # None /\ t.exectime > t.soft_timeout[1]
  THEN [t EXCEPT !.state = "SOFT_TIMEOUT"]
  ELSE [t EXCEPT !.state = "SUCCESS"]

\* Mutant of merge_subset: the jobs of the Set are taken last to first.
RECURSIVE merge_subset_backwards(_, _, _)
merge_subset_backwards(S, content, k) ==
  IF k > Len(content) THEN S
  ELSE LET job == content[Len(content) + 1 - k] IN
       IF S.T[job].state # "EXECUTED"
       THEN [S EXCEPT !.err = "AssertionError"]
       ELSE merge_subset_backwards(publish_job([S EXCEPT !.T[job] = evaluate(@)], job),
                                   content, k + 1)

\* merge_subset(subset), from the k-th job of the Set on.
RECURSIVE merge_subset(_, _, _)
merge_subset(S, content, k) ==
  IF k > Len(content) THEN S
  ELSE IF S.T[content[k]].state # "EXECUTED"
  THEN [S EXCEPT !.err = "AssertionError"]
  ELSE merge_subset(publish_job([S EXCEPT !.T[content[k]] = evaluate(@)], content[k]),
                    content, k + 1)

\* The scheduling loop gives back the allocations of a merged Set, from its
\* k-th job on.
RECURSIVE release(_, _, _, _)
release(tracker, T, content, k) ==
  IF k > Len(content) THEN tracker
  ELSE release(free(tracker, T[content[k]].alloc_tracking), T, content, k + 1)

\* The scheduling loop runs once resolve_deps and filter_tags have returned,
\* and no longer after an exception.
Scheduling == RunAt("filtered") \/ RunAt("running")

\* What the plugin enabled for SCHED_JOB_EVAL may return; None with no such plugin.
JobEval(P) == IF "SCHED_JOB_EVAL" \in P.enabled THEN {Some(TRUE), Some(FALSE)} ELSE {None}

\* Manager.create_subset(tracker), on the first tracker.
CreateSubset ==
  /\ Scheduling
  /\ \E eval \in JobEval(pcoll) :
     \E r \in {create_subset(tests, jobs, count, published, trackers[1],
                             alloc_tracking_counter, pcoll, concurrent_level, eval)} :
       /\ tests' = r.T
       /\ jobs' = r.J
       /\ count' = r.cnt
       /\ published' = r.pub
       /\ pcoll' = r.pcoll
       /\ err' = r.err
       /\ trackers' = [trackers EXCEPT ![1] = r.tracker]
       /\ alloc_tracking_counter' = r.counter
       /\ sets' = IF r.set = <<>> THEN sets
                  ELSE sets \cup {[content |-> r.set, completed |-> FALSE,
                                   execmode |-> r.execmode]}
       /\ IF r.allocs = <<>>
          THEN UNCHANGED <<last, live, issued>>
          ELSE LET a == r.allocs[Len(r.allocs)] IN
               /\ last' = [op |-> "alloc", tracker |-> 1, arg |-> a.need, ret |-> a.ret,
                           changed |-> a.changed]
               /\ live' = IF a.ret # 0
                          THEN live \cup {[id |-> a.ret, tracker |-> 1,
                                           size |-> Product(a.need)]}
                          ELSE live
               /\ issued' = IF a.ret # 0 THEN Append(issued, a.ret) ELSE issued
  /\ phase' = "running"
  /\ UNCHANGED <<calls, dep_rules, run_filter, concurrent_level, errarg>>
  /\ UNCHANGED runvars

\* The longest a command runs, in seconds.
MaxRunTime == 3

\* The commands of the jobs: exit 0 or 1, during their first, second, ... second.
Commands == [rc : {0, 1}, duration : 1..MaxRunTime]

\* A worker runs a Set in LOCAL mode to its end.
LocalExec ==
  \E s \in sets :
    /\ ~s.completed /\ s.execmode = "LOCAL"
    /\ \E o \in [1..Len(s.content) -> Commands] :
         /\ tests' = local_exec(tests, s.content, o, 1)
         /\ signals' = signals \cup killpg(tests, s.content, o)
    /\ sets' = (sets \ {s}) \cup {[s EXCEPT !.completed = TRUE]}
    /\ UNCHANGED <<jobs, dep_rules, count, run_filter, pcoll, concurrent_level, phase, err, errarg, published>>
    /\ UNCHANGED rtvars
    /\ UNCHANGED remvars

\* The scheduling loop takes a completed Set: merge_subset, then the release
\* of its allocations.
MergeSubset ==
  /\ Scheduling
  /\ \E s \in sets :
       /\ s.completed
       /\ \E r \in {merge_subset([T |-> tests, cnt |-> count, pub |-> published,
                                  err |-> ""], s.content, 1)} :
            /\ tests' = r.T
            /\ count' = r.cnt
            /\ published' = r.pub
            /\ err' = r.err
            /\ trackers' = [trackers EXCEPT ![1] = release(@, r.T, s.content, 1)]
            /\ live' = {l \in live :
                          ~(l.tracker = 1 /\ \E k \in 1..Len(s.content) :
                                               l.id = r.T[s.content[k]].alloc_tracking)}
            /\ last' = [op |-> "free", tracker |-> 1,
                        arg |-> [k \in 1..Len(s.content) |-> r.T[s.content[k]].alloc_tracking],
                        ret |-> 0, changed |-> Changed(trackers[1], trackers'[1])]
       /\ sets' = sets \ {s}
  /\ UNCHANGED <<jobs, dep_rules, run_filter, pcoll, concurrent_level, phase, errarg, alloc_tracking_counter,
                 issued, calls>>
  /\ UNCHANGED runvars

\* prune_all_jobs_as_non_runnable(): every job of self.jobs, from the k-th on,
\* is published as ERR_OTHER; self.jobs is left as it is.
RECURSIVE prune_all_jobs_as_non_runnable(_, _)
prune_all_jobs_as_non_runnable(S, k) ==
  IF k > Len(S.J) THEN S
  ELSE prune_all_jobs_as_non_runnable(
         publish_failed_to_run_job(S, S.J[k].job, DISCARDED_STR, "ERR_OTHER"), k + 1)

\* Jobs are left, no Set is in flight and create_subset neither hands over a
\* Set nor publishes anything: the jobs left cannot run.
Stalled ==
  /\ RunAt("running")
  /\ sets = {}
  /\ get_leftjob_count(count) > 0
  /\ \E r \in {default_create_subset(tests, jobs, count, published, trackers[1],
                                     alloc_tracking_counter, None)} :
       r.set = <<>> /\ r.pub = published

\* The scheduling loop gives up on the jobs left: prune_all_jobs_as_non_runnable().
Prune ==
  /\ Stalled
  /\ \E r \in {prune_all_jobs_as_non_runnable(
                 [T |-> tests, J |-> jobs, cnt |-> count, pub |-> published], 1)} :
       /\ tests' = r.T
       /\ count' = r.cnt
       /\ published' = r.pub
  /\ UNCHANGED <<rtvars, jobs, dep_rules, run_filter, pcoll, concurrent_level, phase, err, errarg, sets>>
  /\ UNCHANGED runvars

\* validation.time.soft_timeout of the tests that give one, in seconds.
SoftTimeout == 1

\* The resources a test of a run asks for.
RunResources == {<<1, 1>>, <<2, 1>>, <<2, 2>>}

\* The pools of a run: the tests of FilterSuite with at most MaxFilterDeps
\* dependency names each, no tag and no run filter.
InitRun ==
  /\ InitTrackers
  /\ \E dn \in [1..Len(FilterSuite) -> DepLists(MaxFilterDeps)],
        rs \in [1..Len(FilterSuite) -> RunResources],
        st \in {NoTimeout, Some(SoftTimeout)} :
       Loaded([i \in 1..Len(FilterSuite) |->
                 [NewTest(FilterSuite[i].path, FilterSuite[i].comb, rs[i], dn[i], <<>>)
                    EXCEPT !.soft_timeout = st]],
              <<>>)

NextRun == ResolveDeps \/ FilterTags \/ CreateSubset \/ LocalExec \/ MergeSubset

SpecRun == InitRun /\ [][NextRun]_vars

\* needed_resources of the tests of SpecPrune: one node, or more nodes than the
\* tracker has.
PruneResources == {<<1, 1>>, <<3, 1>>}

\* The pools of SpecPrune: the tests of FilterSuite with at most MaxFilterDeps
\* dependency names each, no soft timeout, no tag and no run filter.
InitPrune ==
  /\ InitTrackers
  /\ \E dn \in [1..Len(FilterSuite) -> DepLists(MaxFilterDeps)],
        rs \in [1..Len(FilterSuite) -> PruneResources] :
       Loaded([i \in 1..Len(FilterSuite) |->
                 NewTest(FilterSuite[i].path, FilterSuite[i].comb, rs[i], dn[i], <<>>)],
              <<>>)

NextPrune == ResolveDeps \/ FilterTags \/ CreateSubset \/ LocalExec \/ MergeSubset \/ Prune

SpecPrune == InitPrune /\ [][NextPrune]_vars

\* The most machine.concurrent_run is set to.
MaxConcurrent == 3

\* The tags of a test of SpecHooks.
HookTags == {<<>>, <<"compilation">>}

\* The pools of SpecHooks: the tests of FilterSuite with at most MaxFilterDeps
\* dependency names each, tagged as compilation or not, any scheduling plugin
\* enabled or none, and the concurrency level 1 or MaxConcurrent.
InitHooks ==
  /\ InitTrackers
  /\ \E dn \in [1..Len(FilterSuite) -> DepLists(MaxFilterDeps)],
        tg \in [1..Len(FilterSuite) -> HookTags] :
       LET ts == [i \in 1..Len(FilterSuite) |->
                    NewTest(FilterSuite[i].path, FilterSuite[i].comb, DefaultResources, dn[i],
                            tg[i])]
           M  == AddAll(NewManager, ts, 1)
       IN  /\ tests = [n \in {ts[i].name : i \in 1..Len(ts)} |->
                         ts[CHOOSE i \in 1..Len(ts) : ts[i].name = n]]
           /\ jobs = M.jobs
           /\ dep_rules = M.dep_rules
           /\ count = M.count
  /\ run_filter = <<>>
  /\ \E en \in SUBSET {"SCHED_SET_EVAL", "SCHED_JOB_EVAL"} :
       pcoll = [NewCollection EXCEPT !.enabled = en]
  /\ concurrent_level \in {1, MaxConcurrent}
  /\ phase = "loaded"
  /\ err = ""
  /\ errarg = <<>>
  /\ sets = {}
  /\ published = <<>>
  /\ InitRunner

NextHooks == ResolveDeps \/ FilterTags \/ CreateSubset \/ LocalExec \/ MergeSubset

SpecHooks == InitHooks /\ [][NextHooks]_vars

(***************************************************************************)
(* RemoteContext (orchestration/runner.py): the input file.  A Python      *)
(* value is a record with its type t and its content v; a str is a tuple   *)
(* of the parts it was built from, a dict the sequence of its items, a     *)
(* JSON text the sequence of its tokens.                                   *)
(***************************************************************************)
PyNone == [t |-> "None", v |-> <<>>]

PyStr(s) == [t |-> "str", v |-> s]

PyList(l) == [t |-> "list", v |-> l]

PyDict(items) == [t |-> "dict", v |-> items]

\* A token of a JSON text: punctuation, null, or a string literal.
Tok(k, s) == [k |-> k, s |-> s]

RECURSIVE json_dumps(_)
RECURSIVE dumps_items(_, _)
RECURSIVE dumps_pairs(_, _)

\* The elements of a list from the i-th on, separated by commas.
dumps_items(l, i) ==
  IF i > Len(l) THEN <<>>
  ELSE (IF i > 1 THEN <<Tok(",", <<>>)>> ELSE <<>>) \o json_dumps(l[i])
       \o dumps_items(l, i + 1)

\* The items of a dict from the i-th on.
dumps_pairs(d, i) ==
  IF i > Len(d) THEN <<>>
  ELSE (IF i > 1 THEN <<Tok(",", <<>>)>> ELSE <<>>)
       \o <<Tok("string", <<d[i][1]>>), Tok(":", <<>>)>> \o json_dumps(d[i][2])
       \o dumps_pairs(d, i + 1)

\* json.dumps(v)
json_dumps(v) ==
  IF v.t = "None" THEN <<Tok("null", <<>>)>>
  ELSE IF v.t = "str" THEN <<Tok("string", v.v)>>
  ELSE IF v.t = "list"
  THEN <<Tok("[", <<>>)>> \o dumps_items(v.v, 1) \o <<Tok("]", <<>>)>>
  ELSE <<Tok("{", <<>>)>> \o dumps_pairs(v.v, 1) \o <<Tok("}", <<>>)>>

RECURSIVE parse_value(_, _)
RECURSIVE parse_items(_, _, _)
RECURSIVE parse_pairs(_, _, _)

\* The elements of a list, acc read so far, the next token being the i-th:
\* the value read and the index of the token that follows it.
parse_items(toks, i, acc) ==
  IF toks[i].k = "]" THEN [v |-> PyList(acc), i |-> i + 1]
  ELSE LET j == IF toks[i].k = "," THEN i + 1 ELSE i
           r == parse_value(toks, j)
       IN  parse_items(toks, r.i, Append(acc, r.v))

\* The items of a dict, acc read so far, the next token being the i-th.
parse_pairs(toks, i, acc) ==
  IF toks[i].k = "}" THEN [v |-> PyDict(acc), i |-> i + 1]
  ELSE LET j == IF toks[i].k = "," THEN i + 1 ELSE i
           r == parse_value(toks, j + 2)
       IN  parse_pairs(toks, r.i, Append(acc, <<toks[j].s[1], r.v>>))

\* The value that starts at the i-th token.
parse_value(toks, i) ==
  IF toks[i].k = "null" THEN [v |-> PyNone, i |-> i + 1]
  ELSE IF toks[i].k = "string" THEN [v |-> PyStr(toks[i].s), i |-> i + 1]
  ELSE IF toks[i].k = "[" THEN parse_items(toks, i + 1, <<>>)
  ELSE parse_pairs(toks, i + 1, <<>>)

\* json.loads(text) of a text that json.dumps wrote
json_loads(text) == parse_value(text, 1).v

\* dict.get(key, default)
dict_get(d, key, default) ==
  IF \E i \in 1..Len(d.v) : d.v[i][1] = key
  THEN d.v[CHOOSE i \in 1..Len(d.v) : d.v[i][1] = key][2]
  ELSE default

\* The Python value of an optional str.
py(field) == IF field = None THEN PyNone ELSE PyStr(field[1])

\* Test.to_minimal_json()
to_minimal_json(t) ==
  PyDict(<< <<"jid", PyStr(t.jid)>>, <<"invocation_cmd", py(t.invocation_cmd)>> >>)

\* Test.from_minimal_json(jsonstr) of a type-checked class: an argument that
\* is not a str is refused at the call; a str is parsed and read.
from_minimal_json(t, jsonstr) ==
  IF jsonstr.t # "str"
  THEN [err |-> "TypeCheckError", self |-> t]
  ELSE LET jsonobj == json_loads(jsonstr.v)
           cmd == dict_get(jsonobj, "invocation_cmd", PyStr(<<"exit 1">>))
           jid == dict_get(jsonobj, "jid", PyStr(<<"-1">>))
       IN  [err |-> "",
            self |-> [t EXCEPT !.invocation_cmd = IF cmd.t = "None" THEN None ELSE Some(cmd.v),
                               !.jid = jid.v]]

\* Test(): a test built with no argument.
DefaultTest == NewTest("nolabel/nosubtree/noname", "", DefaultResources, <<>>, <<>>)

\* RemoteContext(prefix)
NewRemoteContext == [cnt |-> 0, outfile |-> None]

\* RemoteContext.save_input_to_disk(jobs)
save_input_to_disk(D, T, content) ==
  [D EXCEPT !.input =
     Some(json_dumps(PyList([i \in 1..Len(content) |-> to_minimal_json(T[content[i]])])))]

\* The loop of load_input_from_disk over the list read, from its i-th element
\* on: jobs is the content of the Set built so far, cnt the counter.
RECURSIVE load_jobs(_, _, _, _)
load_jobs(data, i, jobs_, cnt) ==
  IF i > Len(data) THEN [err |-> "", jobs |-> jobs_, cnt |-> cnt]
  ELSE LET r == from_minimal_json(DefaultTest, data[i]) IN
       IF r.err # "" THEN [err |-> r.err, jobs |-> jobs_, cnt |-> cnt]
       ELSE load_jobs(data, i + 1, Append(jobs_, r.self), cnt + 1)

\* RemoteContext.load_input_from_disk()
load_input_from_disk(D) == load_jobs(json_loads(D.input[1]).v, 1, <<>>, 0)

\* remote_exec, in the process of the Manager: the context of a Set is made and
\* its input written.
SaveInput ==
  /\ phase = "set"
  /\ disk.input = None
  /\ \E s \in sets : disk' = save_input_to_disk(disk, tests, s.content)
  /\ phase' = "saved"
  /\ UNCHANGED <<tests, jobs, dep_rules, count, run_filter, pcoll, concurrent_level, err, errarg, sets, published>>
  /\ UNCHANGED <<signals, ctx, rset, rq, cq, ev, sched_in_progress, pc>>
  /\ UNCHANGED rtvars

\* RunnerRemote.connect_to_context(), in the process of remote-run: a fresh
\* RemoteContext reads the input back.
ConnectToContext ==
  /\ phase = "saved"
  /\ \E r \in {load_input_from_disk(disk)} :
       /\ ctx' = Some([NewRemoteContext EXCEPT !.cnt = r.cnt])
       /\ rset' = IF r.err = "" THEN Some(r.jobs) ELSE None
       /\ err' = r.err
  /\ phase' = "connected"
  /\ UNCHANGED <<tests, jobs, dep_rules, count, run_filter, pcoll, concurrent_level, errarg, sets, published>>
  /\ UNCHANGED <<signals, disk, rq, cq, ev, sched_in_progress, pc>>
  /\ UNCHANGED rtvars

\* The longest Set written to an input file.
MaxSetLen == 2

\* The sequences of at most n distinct elements of S.
RECURSIVE Arrangements(_, _)
Arrangements(S, n) ==
  IF n = 0 THEN {<<>>}
  ELSE Arrangements(S, n - 1)
       \cup {Append(a, x) : a \in {b \in Arrangements(S, n - 1) : Len(b) = n - 1},
                            x \in S} 

\* test.generate_script(srcfile) has set the invocation command.
with_invocation_cmd(t) ==
  [t EXCEPT !.invocation_cmd = Some(<<"bash", "list_of_tests.sh", t.name>>)]

\* The tests of FilterSuite, some with their invocation command set, and one
\* Set of at most MaxSetLen of them.
InitInput ==
  /\ InitTrackers
  /\ \E ic \in [1..Len(FilterSuite) -> BOOLEAN] :
       LET ts == [i \in 1..Len(FilterSuite) |->
                    LET t == NewTest(FilterSuite[i].path, FilterSuite[i].comb,
                                     DefaultResources, <<>>, <<>>)
                    IN  IF ic[i] THEN with_invocation_cmd(t) ELSE t]
           M  == AddAll(NewManager, ts, 1)
       IN  /\ tests = [n \in {ts[i].name : i \in 1..Len(ts)} |->
                         ts[CHOOSE i \in 1..Len(ts) : ts[i].name = n]]
           /\ jobs = M.jobs
           /\ dep_rules = M.dep_rules
           /\ count = M.count
           /\ \E c \in {a \in Arrangements({ts[i].name : i \in 1..Len(ts)}, MaxSetLen) :
                          \A i, j \in 1..Len(a) : i # j => a[i] # a[j]} :
                sets = {[content |-> c, completed |-> FALSE]}
  /\ run_filter = <<>>
  /\ pcoll = NewCollection
  /\ concurrent_level = 1
  /\ phase = "set"
  /\ err = ""
  /\ errarg = <<>>
  /\ published = <<>>
  /\ InitRunner

NextInput == SaveInput \/ ConnectToContext

SpecInput == InitInput /\ [][NextInput]_vars

(***************************************************************************)
(* RemoteContext: the output file and the completion marker.  The output   *)
(* file is the sequence of the chunks that reached the disk; an open       *)
(* BufferedWriter holds the chunks written and not flushed yet.            *)
(***************************************************************************)
\* RemoteContext.MAGIC_TOKEN
MAGIC_TOKEN == "PCVS-MAGIC"

\* base64.b64encode(output.encode("utf-8")), kept symbolic, with its length.
b64encode(output) == [b64 |-> output, len |-> 4 * ((Len(output) + 2) \div 3)]

\* base64.b64decode(data).decode("utf-8")
b64decode(data) == data.b64

\* Test.b64_output_bytes
b64_output_bytes(t) == b64encode(t.output)

\* The three items that save_result_to_disk hands to writelines for a job:
\* the line MAGIC:jid:len:time:rc, the data, the end of line.
\* The record of a job with its data written before its metadata.
result_lines_data_first(job) ==
  << [k |-> "data", data |-> b64_output_bytes(job)],
     [k |-> "meta", magic |-> MAGIC_TOKEN, jid |-> job.jid,
      len |-> b64_output_bytes(job).len, time |-> job.exectime, rc |-> job.rc],
     [k |-> "eol"] >>

result_lines(job) ==
  << [k |-> "meta", magic |-> MAGIC_TOKEN, jid |-> job.jid,
      len |-> b64_output_bytes(job).len, time |-> job.exectime, rc |-> job.rc],
     [k |-> "data", data |-> b64_output_bytes(job)],
     [k |-> "eol"] >>

\* open(path, "wb"): the file is made, or emptied, and nothing is buffered.
open_wb == [buf |-> <<>>, closed |-> FALSE]

\* The BufferedWriter hands its n oldest chunks to the file.
flush(C, D, n) ==
  [ctx  |-> [C EXCEPT !.outfile = Some([@[1] EXCEPT !.buf = SubSeq(@, n + 1, Len(@))])],
   disk |-> [D EXCEPT !.output = Some(@[1] \o SubSeq(C.outfile[1].buf, 1, n))]]

\* RemoteContext.save_result_to_disk(job): the file is opened by the first
\* call; the writer keeps the lines and has flushed n chunks when the call
\* returns.
save_result_to_disk(C, D, job, n) ==
  LET C1 == IF C.outfile = None THEN [C EXCEPT !.outfile = Some(open_wb)] ELSE C
      D1 == IF C.outfile = None THEN [D EXCEPT !.output = Some(<<>>)] ELSE D
      C2 == [C1 EXCEPT !.outfile = Some([@[1] EXCEPT !.buf = @ \o result_lines(job)])]
  IN  flush(C2, D1, n)

\* self._outfile.close() of mark_as_completed: what is buffered reaches the file.
close_outfile(C, D) ==
  IF C.outfile = None THEN [ctx |-> C, disk |-> D]
  ELSE LET r == flush(C, D, Len(C.outfile[1].buf)) IN
       [ctx  |-> [r.ctx EXCEPT !.outfile = Some([@[1] EXCEPT !.closed = TRUE])],
        disk |-> r.disk]

\* mark_as_completed without its last statement: no marker is made.
create_marker_none(D) == D

\* open(self._completed_file, "w").close() of mark_as_completed
create_marker(D) == [D EXCEPT !.completed = TRUE]

\* Mutant of mark_as_not_completed: the marker is left where it is.
mark_as_not_completed_kept(D) == D

\* RemoteContext.mark_as_not_completed()
mark_as_not_completed(D) == [D EXCEPT !.completed = FALSE]

\* RemoteContext.completed
completed(D) == D.completed

(***************************************************************************)
(* RunnerRemote.run(parallel), in the process of remote-run: the main      *)
(* thread, the thread of progress_jobs and the RunnerAdapter threads.  A   *)
(* thread is where it is in its code (at), with the Set it holds (item)    *)
(* and the counter of its loop (n).  The jobs of the Set loaded are named  *)
(* by their place in it.                                                   *)
(***************************************************************************)
\* The most RunnerAdapter threads of a run.
MaxParallel == 2

\* The RunnerAdapter threads, in the order they are started.
Adapters == [k \in 1..MaxParallel |-> "w" \o ToString(k)]

Thread(at, item, n) == [at |-> at, item |-> item, n |-> n]

\* The RunnerAdapter threads of this run.
Workers == DOMAIN pc \ {"main", "progress"}

\* run() was called on a RunnerRemote that has its context and its Set.
Running == phase = "connected" /\ err = "" /\ ctx # None /\ rset # None

\* What the steps of run() leave alone in the process of the Manager.
UnchangedManager ==
  /\ UNCHANGED rtvars
  /\ UNCHANGED <<tests, jobs, dep_rules, count, run_filter, pcoll, concurrent_level, phase, err, errarg, sets, published>>

\* self._ctx.mark_as_not_completed()
MarkAsNotCompleted ==
  /\ Running /\ pc["main"].at = "start"
  /\ disk' = mark_as_not_completed(disk)
  /\ pc' = [pc EXCEPT !["main"].at = "start_progress"]
  /\ UNCHANGED <<signals, ctx, rset, rq, cq, ev, sched_in_progress>>
  /\ UnchangedManager

\* progress.start()
StartProgress ==
  /\ Running /\ pc["main"].at = "start_progress"
  /\ pc' = [pc EXCEPT !["main"].at = "start_workers", !["progress"].at = "loop"]
  /\ UNCHANGED <<signals, disk, ctx, rset, rq, cq, ev, sched_in_progress>>
  /\ UnchangedManager

\* for _ in range(0, parallel): thr.start()
StartWorker ==
  /\ Running /\ pc["main"].at = "start_workers"
  /\ LET k == pc["main"].n + 1 IN
     pc' = [pc EXCEPT !["main"] = IF k = Cardinality(Workers) THEN Thread("put", None, 0)
                                   ELSE Thread("start_workers", None, k),
                      ![Adapters[k]].at = "loop"]
  /\ UNCHANGED <<signals, disk, ctx, rset, rq, cq, ev, sched_in_progress>>
  /\ UnchangedManager

\* for job in self._set.content: a Set of that job alone is put in rq.
PutSet ==
  /\ Running /\ pc["main"].at = "put" /\ pc["main"].n < Len(rset[1])
  /\ rq' = Append(rq, [content |-> <<pc["main"].n + 1>>, completed |-> FALSE])
  /\ pc' = [pc EXCEPT !["main"].n = @ + 1]
  /\ UNCHANGED <<signals, disk, ctx, rset, cq, ev, sched_in_progress>>
  /\ UnchangedManager

\* while not ev.is_set(): sleep(1); then RunnerAdapter.sched_in_progress = False
StopAdapters ==
  /\ Running /\ pc["main"].at = "put" /\ pc["main"].n = Len(rset[1])
  /\ ev
  /\ sched_in_progress' = FALSE
  /\ pc' = [pc EXCEPT !["main"].at = "join"]
  /\ UNCHANGED <<signals, disk, ctx, rset, rq, cq, ev>>
  /\ UnchangedManager

\* for thr in thr_list: thr.join()
Join ==
  /\ Running /\ pc["main"].at = "join"
  /\ \A w \in Workers : pc[w].at \in {"done", "dead"}
  /\ pc' = [pc EXCEPT !["main"].at = "close"]
  /\ UNCHANGED <<signals, disk, ctx, rset, rq, cq, ev, sched_in_progress>>
  /\ UnchangedManager

\* mark_as_completed(): the output file is closed, if it was opened.
CloseOutfile ==
  /\ Running /\ pc["main"].at = "close"
  /\ \E r \in {close_outfile(ctx[1], disk)} :
       /\ ctx' = Some(r.ctx)
       /\ disk' = r.disk
  /\ pc' = [pc EXCEPT !["main"].at = "mark"]
  /\ UNCHANGED <<signals, rset, rq, cq, ev, sched_in_progress>>
  /\ UnchangedManager

\* mark_as_completed(): then the marker is made.
CreateMarker ==
  /\ Running /\ pc["main"].at = "mark"
  /\ disk' = create_marker(disk)
  /\ pc' = [pc EXCEPT !["main"].at = "done"]
  /\ UNCHANGED <<signals, ctx, rset, rq, cq, ev, sched_in_progress>>
  /\ UnchangedManager

\* RunnerAdapter.run: item = self._rq.get(block=False)
AdapterGet ==
  /\ Running
  /\ \E w \in Workers :
       /\ pc[w].at = "loop" /\ sched_in_progress /\ rq # <<>>
       /\ pc' = [pc EXCEPT ![w] = Thread("exec", Some(Head(rq)), 0)]
  /\ rq' = Tail(rq)
  /\ UNCHANGED <<signals, disk, ctx, rset, cq, ev, sched_in_progress>>
  /\ UnchangedManager

\* RunnerAdapter.run: self.execute_set(item) of a LOCAL Set, then
\* self._cq.put(item).
AdapterExec ==
  /\ Running
  /\ \E w \in Workers :
       /\ pc[w].at = "exec"
       /\ LET item == pc[w].item[1] IN
          \E o \in [1..Len(item.content) -> Commands] :
            /\ rset' = Some(local_exec(rset[1], item.content, o, 1))
            /\ signals' = signals \cup killpg(rset[1], item.content, o)
            /\ cq' = Append(cq, [item EXCEPT !.completed = TRUE])
       /\ pc' = [pc EXCEPT ![w] = Thread("loop", None, 0)]
  /\ UNCHANGED <<disk, ctx, rq, ev, sched_in_progress>>
  /\ UnchangedManager

\* RunnerAdapter.run: execute_set raises (subprocess.Popen fails), the
\* exception is raised again and ends the thread.
AdapterRaise ==
  /\ Running
  /\ \E w \in Workers :
       /\ pc[w].at = "exec"
       /\ pc' = [pc EXCEPT ![w] = Thread("dead", None, 0)]
  /\ UNCHANGED <<signals, disk, ctx, rset, rq, cq, ev, sched_in_progress>>
  /\ UnchangedManager

\* RunnerAdapter.run: sched_in_progress is False, break.
AdapterBreak ==
  /\ Running
  /\ \E w \in Workers :
       /\ pc[w].at = "loop" /\ ~sched_in_progress
       /\ pc' = [pc EXCEPT ![w].at = "done"]
  /\ UNCHANGED <<signals, disk, ctx, rset, rq, cq, ev, sched_in_progress>>
  /\ UnchangedManager

\* for job in item.content: ctx.save_result_to_disk(job), from the k-th job on;
\* the writer has flushed at most f[k] chunks when the k-th call returns.
RECURSIVE save_results(_, _, _, _, _, _)
save_results(C, D, T, content, f, k) ==
  IF k > Len(content) THEN [ctx |-> C, disk |-> D]
  ELSE LET buffered == IF C.outfile = None THEN 0 ELSE Len(C.outfile[1].buf)
           n == IF f[k] < buffered + 3 THEN f[k] ELSE buffered + 3
           r == save_result_to_disk(C, D, T[content[k]], n)
       IN  save_results(r.ctx, r.disk, T, content, f, k + 1)

\* progress_jobs: while local_cnt < ctx.cnt, an item is taken from the queue
\* and the results of its jobs are written.
ProgressSave ==
  /\ Running
  /\ pc["progress"].at = "loop" /\ pc["progress"].n < ctx[1].cnt
  /\ cq # <<>>
  /\ \E f \in [1..Len(Head(cq).content) -> 0..(3 * MaxSetLen)] :
       \E r \in {save_results(ctx[1], disk, rset[1], Head(cq).content, f, 1)} :
          /\ ctx' = Some(r.ctx)
          /\ disk' = r.disk
  /\ cq' = Tail(cq)
  /\ pc' = [pc EXCEPT !["progress"].n = @ + Len(Head(cq).content)]
  /\ UNCHANGED <<signals, rset, rq, ev, sched_in_progress>>
  /\ UnchangedManager

\* progress_jobs: local_cnt has reached ctx.cnt, ev.set().
ProgressDone ==
  /\ Running
  /\ pc["progress"].at = "loop" /\ ~(pc["progress"].n < ctx[1].cnt)
  /\ ev' = TRUE
  /\ pc' = [pc EXCEPT !["progress"].at = "done"]
  /\ UNCHANGED <<signals, disk, ctx, rset, rq, cq, sched_in_progress>>
  /\ UnchangedManager

\* The job that load_input_from_disk builds for the job t of the Set written,
\* each element of the list being read as from_minimal_json reads a text.
loaded_job(t) == from_minimal_json(DefaultTest, PyStr(json_dumps(to_minimal_json(t)))).self

\* The chunks of the output file of a run of the jobs js, from the i-th on,
\* each command having exited 0 within a second.
RECURSIVE output_of(_, _)
output_of(js, i) ==
  IF i > Len(js) THEN <<>>
  ELSE result_lines(local_exec(js, <<i>>, <<[rc |-> 0, duration |-> 1]>>, 1)[i])
         \o output_of(js, i + 1)

\* The context directories that run() may find for the input text and the
\* jobs js: the one remote_exec has just made, the one an earlier run() of
\* the same input has completed, and the one an earlier run() was stopped in.
Directories(text, js) ==
  {[input |-> text, output |-> None, completed |-> FALSE],
   [input |-> text, output |-> Some(output_of(js, 1)), completed |-> TRUE]}
  \cup {[input |-> text, output |-> Some(SubSeq(output_of(js, 1), 1, k)), completed |-> FALSE] :
          k \in {n \in {1} : n <= Len(output_of(js, 1))}}

\* remote-run at the call of run(parallel): the tests of FilterSuite, some with
\* their invocation command set, a Set of at most MaxSetLen of them written to
\* the input file and loaded, and no thread started yet.
InitRemote ==
  /\ InitTrackers
  /\ \E ic \in [1..Len(FilterSuite) -> BOOLEAN] :
       LET ts == [i \in 1..Len(FilterSuite) |->
                    LET t == NewTest(FilterSuite[i].path, FilterSuite[i].comb,
                                     DefaultResources, <<>>, <<>>)
                    IN  IF ic[i] THEN with_invocation_cmd(t) ELSE t]
           M  == AddAll(NewManager, ts, 1)
       IN  /\ tests = [n \in {ts[i].name : i \in 1..Len(ts)} |->
                         ts[CHOOSE i \in 1..Len(ts) : ts[i].name = n]]
           /\ jobs = M.jobs
           /\ dep_rules = M.dep_rules
           /\ count = M.count
           /\ \E c \in {a \in Arrangements({ts[i].name : i \in 1..Len(ts)}, MaxSetLen) :
                          \A i, j \in 1..Len(a) : i # j => a[i] # a[j]} :
                /\ sets = {[content |-> c, completed |-> FALSE]}
                /\ rset = Some([i \in 1..Len(c) |-> loaded_job(tests[c[i]])])
                /\ ctx = Some([NewRemoteContext EXCEPT !.cnt = Len(c)])
                /\ disk \in Directories(save_input_to_disk(EmptyDir, tests, c).input, rset[1])
  /\ run_filter = <<>>
  /\ pcoll = NewCollection
  /\ concurrent_level = 1
  /\ phase = "connected"
  /\ err = ""
  /\ errarg = <<>>
  /\ published = <<>>
  /\ signals = {}
  /\ rq = <<>>
  /\ cq = <<>>
  /\ ev = FALSE
  /\ sched_in_progress = TRUE
  /\ \E parallel \in 1..MaxParallel :
       pc = [t \in {"main", "progress"} \cup {Adapters[k] : k \in 1..parallel} |->
               Thread(IF t = "main" THEN "start" ELSE "idle", None, 0)]

NextRemote ==
  \/ MarkAsNotCompleted \/ StartProgress \/ StartWorker \/ PutSet \/ StopAdapters
  \/ Join \/ CloseOutfile \/ CreateMarker
  \/ AdapterGet \/ AdapterExec \/ AdapterRaise \/ AdapterBreak
  \/ ProgressSave \/ ProgressDone

SpecRemote == InitRemote /\ [][NextRemote]_vars

\* No thread of the run stops for ever while it has a step to take: the loops
\* of the threads poll their queue, their flag or their event again and again.
FairRemote == SpecRemote /\ WF_vars(NextRemote)

(***************************************************************************)
(* RunnerAdapter.remote_exec, in the process of the Manager: the Sets that *)
(* a scheduling plugin has built are taken by the RunnerAdapter threads;   *)
(* a Set that is not LOCAL gets a context directory of its own (disk maps  *)
(* the Set id to it) and a wrapper process running "pcvs remote-run".      *)
(***************************************************************************)
\* Set.ExecMode
ExecMode == {"LOCAL", "ALLOC", "REMOTE", "BATCH"}

\* The command line of remote_exec for the Set s, parallel being 1.
remote_cmd(s) ==
  <<"wrapper", "pcvs", "remote-run", "-c", <<"context", s.id>>, "-p", "1">>

\* The wrapper process of the Set s.
wrapper(s) == "p" \o ToString(s.id)

\* jobs.find(jobid): the job of content with that jid, or None.
find(T, content, jobid) ==
  IF \E k \in 1..Len(content) : T[content[k]].jid = jobid
  THEN content[CHOOSE k \in 1..Len(content) : T[content[k]].jid = jobid]
  ELSE NoJob

\* RemoteContext.load_result_from_disk(jobs) on the chunks read, from the
\* i-th on: a line of metadata, then its line of data.
RECURSIVE load_result_from_disk(_, _, _, _)
load_result_from_disk(T, chunks, content, i) ==
  IF i > Len(chunks) THEN [err |-> "", T |-> T]
  ELSE IF chunks[i].k # "meta" THEN [err |-> "ValueError", T |-> T]
  ELSE IF chunks[i].magic # MAGIC_TOKEN THEN [err |-> "AssertionError", T |-> T]
  ELSE LET job == find(T, content, chunks[i].jid) IN
       IF job = NoJob THEN [err |-> "AssertionError", T |-> T]
       ELSE IF chunks[i].len > 0 /\ i + 1 > Len(chunks) THEN [err |-> "IndexError", T |-> T]
       ELSE LET t1 == IF chunks[i].len > 0
                      THEN [T[job] EXCEPT !.output = b64decode(chunks[i + 1].data)]
                      ELSE T[job]
                t2 == save_raw_run(t1, "None", Some(chunks[i].rc), Some(chunks[i].time), FALSE)
            IN  load_result_from_disk([T EXCEPT ![job] = save_status(t2, "EXECUTED")],
                                      chunks, content, i + 3)

\* The scheduling loop and the RunnerAdapter threads are running.
Launching == phase = "running" /\ sched_in_progress

\* What the steps of a RunnerAdapter thread leave alone.
UnchangedLoop ==
  /\ UNCHANGED rtvars
  /\ UNCHANGED <<jobs, dep_rules, count, run_filter, pcoll, concurrent_level, phase, sets, published>>
  /\ UNCHANGED <<signals, ctx, rset, ev, sched_in_progress>>

\* RunnerAdapter.run: item = self._rq.get(block=False)
TakeSet ==
  /\ Launching
  /\ \E w \in Workers :
       /\ pc[w].at = "loop" /\ rq # <<>>
       /\ pc' = [pc EXCEPT ![w] = Thread("exec", Some(Head(rq)), 0)]
  /\ rq' = Tail(rq)
  /\ UNCHANGED <<tests, err, errarg, disk, cq>>
  /\ UnchangedLoop

\* RunnerAdapter.run: execute_set(item) of a LOCAL Set, then self._cq.put(item).
ExecLocal ==
  /\ Launching
  /\ \E w \in Workers :
       /\ pc[w].at = "exec" /\ pc[w].item[1].execmode = "LOCAL"
       /\ LET item == pc[w].item[1] IN
          \E o \in [1..Len(item.content) -> Commands] :
            /\ tests' = local_exec(tests, item.content, o, 1)
            /\ cq' = Append(cq, [item EXCEPT !.completed = TRUE])
       /\ pc' = [pc EXCEPT ![w] = Thread("loop", None, 0)]
  /\ UNCHANGED <<err, errarg, disk, rq>>
  /\ UnchangedLoop

\* remote_exec up to subprocess.Popen: the directory is made, the input file
\* written and the wrapper process started; the thread then waits in
\* communicate().
RemoteExec ==
  /\ Launching
  /\ \E w \in Workers :
       /\ pc[w].at = "exec" /\ pc[w].item[1].execmode # "LOCAL"
       /\ LET item == pc[w].item[1] IN
          /\ disk' = [disk EXCEPT ![item.id] = save_input_to_disk(EmptyDir, tests, item.content)]
          /\ pc' = [pc EXCEPT ![w].at = "communicate",
                              ![wrapper(item)] = Thread("started", None, 0)]
  /\ UNCHANGED <<tests, err, errarg, rq, cq>>
  /\ UnchangedLoop

\* remote_exec where subprocess.Popen raises (no process can be made): the
\* exception is wrapped in LaunchError, which RunnerAdapter.run raises again:
\* the thread ends.
PopenRaises ==
  /\ Launching
  /\ \E w \in Workers :
       /\ pc[w].at = "exec" /\ pc[w].item[1].execmode # "LOCAL"
       /\ LET item == pc[w].item[1] IN
          /\ disk' = [disk EXCEPT ![item.id] = save_input_to_disk(EmptyDir, tests, item.content)]
          /\ pc' = [pc EXCEPT ![w].at = "dead", ![wrapper(item)].at = "failed"]
          /\ err' = "LaunchError"
          /\ errarg' = <<remote_cmd(item)>>
  /\ UNCHANGED <<tests, rq, cq>>
  /\ UnchangedLoop

\* The shell of the wrapper process cannot run the wrapper script: it exits
\* with 127 and a message on its error output.
WrapperNotFound ==
  /\ \E s \in sets :
       /\ pc[wrapper(s)].at = "started"
       /\ pc' = [pc EXCEPT ![wrapper(s)] = Thread("exited", None, 127)]
  /\ UNCHANGED <<tests, err, errarg, disk, rq, cq>>
  /\ UnchangedLoop

\* The wrapper runs "pcvs remote-run": connect_to_context() reads the input
\* file; when that raises, the process exits with 1 and the traceback on its
\* error output.
WrapperRemoteRun ==
  /\ \E s \in sets :
       /\ pc[wrapper(s)].at = "started"
       /\ load_input_from_disk(disk[s.id]).err # ""
       /\ pc' = [pc EXCEPT ![wrapper(s)] = Thread("exited", None, 1)]
  /\ UNCHANGED <<tests, err, errarg, disk, rq, cq>>
  /\ UnchangedLoop

\* remote_exec once communicate() has returned: the results are loaded if
\* there is an output file; an exception is wrapped in LaunchError and ends
\* the thread; else remote_exec returns and the Set is put in cq.
RemoteExecReturn ==
  /\ Launching
  /\ \E w \in Workers :
       /\ pc[w].at = "communicate"
       /\ LET item == pc[w].item[1]
              check_output_avail == disk[item.id].output # None
              r == IF check_output_avail
                   THEN load_result_from_disk(tests, disk[item.id].output[1], item.content, 1)
                   ELSE [err |-> "", T |-> tests]
          IN  /\ pc[wrapper(item)].at = "exited"
              /\ tests' = r.T
              /\ IF r.err # ""
                 THEN /\ err' = "LaunchError"
                      /\ errarg' = <<remote_cmd(item)>>
                      /\ pc' = [pc EXCEPT ![w].at = "dead"]
                      /\ cq' = cq
                 ELSE /\ UNCHANGED <<err, errarg>>
                      /\ pc' = [pc EXCEPT ![w] = Thread("loop", None, 0)]
                      /\ cq' = Append(cq, item)
  /\ UNCHANGED <<disk, rq>>
  /\ UnchangedLoop

\* The scheduling loop, which no exception has ended, takes a Set from cq:
\* merge_subset.
MergeLaunched ==
  /\ Launching /\ cq # <<>>
  /\ err \in {"", "LaunchError"}
  /\ \E r \in {merge_subset([T |-> tests, cnt |-> count, pub |-> published, err |-> ""],
                            Head(cq).content, 1)} :
       /\ tests' = r.T
       /\ count' = r.cnt
       /\ published' = r.pub
       /\ IF r.err # "" THEN err' = r.err /\ errarg' = <<>> ELSE UNCHANGED <<err, errarg>>
  /\ cq' = Tail(cq)
  /\ sets' = {s \in sets : s.id # Head(cq).id}
  /\ UNCHANGED rtvars
  /\ UNCHANGED <<jobs, dep_rules, run_filter, pcoll, concurrent_level, phase>>
  /\ UNCHANGED <<signals, disk, ctx, rset, rq, ev, sched_in_progress, pc>>

\* The tests of FilterSuite, all picked by a scheduling plugin that has put
\* them in two Sets, the first one not LOCAL; both Sets are in rq, and 1 to
\* MaxParallel RunnerAdapter threads are started.
InitLaunch ==
  /\ InitTrackers
  /\ LET ts == [i \in 1..Len(FilterSuite) |->
                  pick(with_invocation_cmd(NewTest(FilterSuite[i].path, FilterSuite[i].comb,
                                                   DefaultResources, <<>>, <<>>)))]
         M  == AddAll(NewManager, ts, 1)
     IN  /\ tests = [n \in {ts[i].name : i \in 1..Len(ts)} |->
                       ts[CHOOSE i \in 1..Len(ts) : ts[i].name = n]]
         /\ jobs = <<>>
         /\ dep_rules = M.dep_rules
         /\ count = M.count
         /\ \E c \in {a \in Arrangements({ts[i].name : i \in 1..Len(ts)}, Len(ts)) :
                        Len(a) = Len(ts) /\ \A i, j \in 1..Len(a) : i # j => a[i] # a[j]},
               k \in 1..(Len(ts) - 1), m1 \in ExecMode \ {"LOCAL"}, m2 \in ExecMode,
               first \in {1, 2} :
              LET S == <<[id |-> 1, content |-> SubSeq(c, 1, k), completed |-> FALSE,
                          execmode |-> m1],
                         [id |-> 2, content |-> SubSeq(c, k + 1, Len(c)), completed |-> FALSE,
                          execmode |-> m2]>>
              IN  /\ sets = {S[1], S[2]}
                  /\ rq = <<S[first], S[3 - first]>>
  /\ run_filter = <<>>
  /\ pcoll = SetEvalCollection
  /\ concurrent_level = 1
  /\ phase = "running"
  /\ err = ""
  /\ errarg = <<>>
  /\ published = <<>>
  /\ signals = {}
  /\ disk = [id \in {1, 2} |-> EmptyDir]
  /\ ctx = None
  /\ rset = None
  /\ cq = <<>>
  /\ ev = FALSE
  /\ sched_in_progress = TRUE
  /\ \E parallel \in 1..MaxParallel :
       pc = [t \in {Adapters[k] : k \in 1..parallel} \cup {"p1", "p2"} |->
               Thread(IF t \in {"p1", "p2"} THEN "idle" ELSE "loop", None, 0)]

NextLaunch ==
  \/ TakeSet \/ ExecLocal \/ RemoteExec \/ PopenRaises \/ WrapperNotFound \/ WrapperRemoteRun
  \/ RemoteExecReturn \/ MergeLaunched

SpecLaunch == InitLaunch /\ [][NextLaunch]_vars

\* The run of SpecLaunch where no thread and no process stops while it has a
\* step to take.
FairLaunch == SpecLaunch /\ WF_vars(NextLaunch)

(***************************************************************************)
(* The output file from one process to the other: the jobs that the        *)
(* remote runner has run are saved one by one, in the order they come out  *)
(* of its completion queue, the file is closed, and the process of the     *)
(* Manager loads it into the jobs of the Set it had handed over.  rset     *)
(* holds the jobs of the remote runner, tests those of the Manager.        *)
(***************************************************************************)
\* What a command may have written: nothing, or some text.
ResultOutputs == {"", stdout}

\* fh.readlines() on the chunks of the file: the line of metadata ends with
\* its own end of line, the data has none and is followed by one.
RECURSIVE readlines(_, _, _)
readlines(chunks, i, line) ==
  IF i > Len(chunks) THEN (IF line = <<>> THEN <<>> ELSE <<line>>)
  ELSE IF chunks[i].k \in {"meta", "eol"}
  THEN <<Append(line, chunks[i])>> \o readlines(chunks, i + 1, <<>>)
  ELSE IF chunks[i].data.len = 0 THEN readlines(chunks, i + 1, line)
  ELSE readlines(chunks, i + 1, Append(line, chunks[i]))

\* The chunks written so far, on the disk or still in the writer.
Written ==
  (IF disk.output = None THEN <<>> ELSE disk.output[1])
    \o (IF ctx[1].outfile = None THEN <<>> ELSE ctx[1].outfile[1].buf)

\* The k-th job of the remote runner has been saved.
Saved(k) == \E i \in 1..Len(Written) : Written[i].k = "meta" /\ Written[i].jid = rset[1][k].jid

UnchangedResult ==
  /\ UNCHANGED rtvars
  /\ UNCHANGED <<jobs, dep_rules, count, run_filter, pcoll, concurrent_level, errarg, sets, published>>
  /\ UNCHANGED <<signals, rset, rq, cq, ev, sched_in_progress, pc>>

\* ctx.save_result_to_disk(job) for a job that has been run and is not saved
\* yet; the writer has flushed nothing or everything when the call returns.
SaveResult ==
  /\ phase = "saving"
  /\ \E k \in 1..Len(rset[1]) :
       /\ ~Saved(k)
       /\ \E n \in {0, 3 * Len(rset[1])} :
            LET buffered == IF ctx[1].outfile = None THEN 0 ELSE Len(ctx[1].outfile[1].buf)
                r == save_result_to_disk(ctx[1], disk, rset[1][k],
                                         IF n < buffered + 3 THEN n ELSE buffered + 3)
            IN  /\ ctx' = Some(r.ctx)
                /\ disk' = r.disk
  /\ UNCHANGED <<tests, phase, err>>
  /\ UnchangedResult

\* mark_as_completed() at the end of the remote run, whatever was saved.
MarkAsCompleted ==
  /\ phase = "saving"
  /\ \E r \in {close_outfile(ctx[1], disk)} :
       /\ ctx' = Some(r.ctx)
       /\ disk' = create_marker(r.disk)
  /\ phase' = "completed"
  /\ UNCHANGED <<tests, err>>
  /\ UnchangedResult

\* remote_exec, once the wrapper has ended: load_result_from_disk(jobs) if
\* there is an output file.
LoadResult ==
  /\ phase = "completed"
  /\ disk.output # None
  /\ \E s \in sets :
       \E r \in {load_result_from_disk(tests, disk.output[1], s.content, 1)} :
          /\ tests' = r.T
          /\ err' = r.err
  /\ phase' = "loaded"
  /\ UNCHANGED <<disk, ctx>>
  /\ UnchangedResult

\* The Manager takes the Set from the completion queue: merge_subset(set).
MergeResult ==
  /\ phase = "loaded" /\ err = ""
  /\ \E s \in sets :
       \E r \in {merge_subset([T |-> tests, cnt |-> count, pub |-> published, err |-> ""],
                              s.content, 1)} :
          /\ tests' = r.T
          /\ count' = r.cnt
          /\ published' = r.pub
          /\ err' = r.err
  /\ phase' = "merged"
  /\ UNCHANGED rtvars
  /\ UNCHANGED <<jobs, dep_rules, run_filter, pcoll, concurrent_level, errarg, sets>>
  /\ UNCHANGED <<signals, disk, ctx, rset, rq, cq, ev, sched_in_progress, pc>>

\* The tests of FilterSuite, picked and handed over in one Set that is not
\* LOCAL; the remote runner has run each of them (any command, any output).
InitResult ==
  /\ InitTrackers
  /\ LET ts == [i \in 1..Len(FilterSuite) |->
                  pick(with_invocation_cmd(NewTest(FilterSuite[i].path, FilterSuite[i].comb,
                                                   DefaultResources, <<>>, <<>>)))]
         M  == AddAll(NewManager, ts, 1)
     IN  /\ tests = [n \in {ts[i].name : i \in 1..Len(ts)} |->
                       ts[CHOOSE i \in 1..Len(ts) : ts[i].name = n]]
         /\ dep_rules = M.dep_rules
         /\ count = M.count
         /\ sets = {[id |-> 1, content |-> [i \in 1..Len(ts) |-> ts[i].name],
                     completed |-> FALSE, execmode |-> "REMOTE"]}
         /\ \E o \in [1..Len(ts) -> Commands], out \in [1..Len(ts) -> ResultOutputs] :
              rset = Some([i \in 1..Len(ts) |->
                             [local_exec(ts, <<i>>, <<o[i]>>, 1)[i] EXCEPT !.output = out[i]]])
  /\ jobs = <<>>
  /\ run_filter = <<>>
  /\ pcoll = SetEvalCollection
  /\ concurrent_level = 1
  /\ phase = "saving"
  /\ err = ""
  /\ errarg = <<>>
  /\ published = <<>>
  /\ signals = {}
  /\ disk = EmptyDir
  /\ ctx = Some(NewRemoteContext)
  /\ rq = <<>>
  /\ cq = <<>>
  /\ ev = FALSE
  /\ sched_in_progress = TRUE
  /\ pc = <<>>

NextResult == SaveResult \/ MarkAsCompleted \/ LoadResult \/ MergeResult

SpecResult == InitResult /\ [][NextResult]_vars

(***************************************************************************)
(* Cancellation of the RunnerAdapter threads: RunnerAdapter.run and        *)
(* local_exec step by step (the test of the flag, the get, each second of  *)
(* the polling loop), with the flag cleared at any moment of the run.      *)
(* The job that local_exec is running is the first job of the Set that is  *)
(* not EXECUTED; n counts the calls of communicate that have timed out.    *)
(***************************************************************************)
\* The threads are started and no exception has ended the scheduling loop.
Started == phase = "running" /\ err = ""

\* What the steps of SpecCancel leave alone.
UnchangedSched ==
  /\ UNCHANGED rtvars
  /\ UNCHANGED <<jobs, dep_rules, count, run_filter, pcoll, concurrent_level, phase, err, errarg, sets, published>>
  /\ UNCHANGED <<disk, ctx, rset, ev>>

\* RunnerAdapter.sched_in_progress = False, by the thread that owns the
\* workers, whatever they are doing.
Cancel ==
  /\ Started /\ sched_in_progress
  /\ sched_in_progress' = FALSE
  /\ UNCHANGED <<tests, signals, rq, cq, pc>>
  /\ UnchangedSched

\* RunnerAdapter.run: "if self.sched_in_progress:", else break.
CheckFlag ==
  /\ Started
  /\ \E w \in Workers :
       /\ pc[w].at = "loop"
       /\ pc' = [pc EXCEPT ![w].at = IF sched_in_progress THEN "get" ELSE "done"]
  /\ UNCHANGED <<tests, signals, rq, cq, sched_in_progress>>
  /\ UnchangedSched

\* RunnerAdapter.run: item = self._rq.get(block=False, timeout=5); queue.Empty
\* sends the thread back to the top of its loop.
GetSet ==
  /\ Started
  /\ \E w \in Workers :
       /\ pc[w].at = "get"
       /\ IF rq # <<>>
          THEN /\ pc' = [pc EXCEPT ![w] = Thread("exec", Some(Head(rq)), 0)]
               /\ rq' = Tail(rq)
          ELSE /\ pc' = [pc EXCEPT ![w].at = "loop"]
               /\ rq' = rq
  /\ UNCHANGED <<tests, signals, cq, sched_in_progress>>
  /\ UnchangedSched

\* The job of the Set that local_exec is at: the first one not EXECUTED.
current_job(T, content) ==
  content[CHOOSE k \in 1..Len(content) :
            /\ T[content[k]].state # "EXECUTED"
            /\ \A m \in 1..(k - 1) : T[content[m]].state = "EXECUTED"]

\* The end of the body of "for _job in jobs.content" in the thread w: the
\* result is saved; after the last job, jobs.completed = True, execute_set
\* returns and run puts the item in cq.
job_done(w, rc, run_time, hard_timeout) ==
  LET item == pc[w].item[1]
      job  == current_job(tests, item.content)
  IN  /\ tests' = [tests EXCEPT ![job] =
                     save_raw_run(save_status(@, "EXECUTED"), stdout, rc, Some(run_time),
                                  hard_timeout)]
      /\ IF job = item.content[Len(item.content)]
         THEN /\ cq' = Append(cq, [item EXCEPT !.completed = TRUE])
              /\ pc' = [pc EXCEPT ![w] = Thread("loop", None, 0)]
         ELSE /\ cq' = cq
              /\ pc' = [pc EXCEPT ![w].n = 0]

\* One turn of the polling loop of local_exec (the process is started before
\* the first one): the process ends within the second with some return code,
\* or communicate times out; then the hard timeout is looked at: SIGTERM; then
\* the flag: SIGKILL, local_exec returns and run puts the item in cq.
Poll ==
  /\ Started
  /\ \E w \in Workers :
       /\ pc[w].at = "exec"
       /\ LET item == pc[w].item[1]
              job  == current_job(tests, item.content)
          IN  \E ended \in BOOLEAN, rc \in {0, 1} :
                IF ended
                THEN /\ job_done(w, Some(rc), pc[w].n + 1, FALSE)
                     /\ signals' = signals
                ELSE IF pc[w].n + 1 >= tests[job].hard_timeout
                THEN /\ job_done(w, None, tests[job].hard_timeout, TRUE)
                     /\ signals' = signals \cup {[job |-> job, signal |-> "SIGTERM"]}
                ELSE IF ~sched_in_progress
                THEN /\ signals' = signals \cup {[job |-> job, signal |-> "SIGKILL"]}
                     /\ cq' = Append(cq, item)
                     /\ pc' = [pc EXCEPT ![w] = Thread("loop", None, 0)]
                     /\ tests' = tests
                ELSE /\ pc' = [pc EXCEPT ![w].n = @ + 1]
                     /\ UNCHANGED <<tests, signals, cq>>
  /\ UNCHANGED <<rq, sched_in_progress>>
  /\ UnchangedSched

\* subprocess.Popen raises (no process can be made): run raises the exception
\* again and the thread ends.
PopenFails ==
  /\ Started
  /\ \E w \in Workers :
       /\ pc[w].at = "exec" /\ pc[w].n = 0
       /\ pc' = [pc EXCEPT ![w].at = "dead"]
  /\ UNCHANGED <<tests, signals, rq, cq, sched_in_progress>>
  /\ UnchangedSched

\* The tests of FilterSuite, picked and put in two LOCAL Sets that are both in
\* rq, and 1 to MaxParallel RunnerAdapter threads started.
InitCancel ==
  /\ InitTrackers
  /\ LET ts == [i \in 1..Len(FilterSuite) |->
                  pick(with_invocation_cmd(NewTest(FilterSuite[i].path, FilterSuite[i].comb,
                                                   DefaultResources, <<>>, <<>>)))]
         M  == AddAll(NewManager, ts, 1)
     IN  /\ tests = [n \in {ts[i].name : i \in 1..Len(ts)} |->
                       ts[CHOOSE i \in 1..Len(ts) : ts[i].name = n]]
         /\ jobs = <<>>
         /\ dep_rules = M.dep_rules
         /\ count = M.count
         /\ \E k \in 1..(Len(ts) - 1) :
              LET S == <<[id |-> 1, content |-> [i \in 1..k |-> ts[i].name],
                          completed |-> FALSE, execmode |-> "LOCAL"],
                         [id |-> 2, content |-> [i \in 1..(Len(ts) - k) |-> ts[k + i].name],
                          completed |-> FALSE, execmode |-> "LOCAL"]>>
              IN  /\ sets = {S[1], S[2]}
                  /\ rq = S
  /\ run_filter = <<>>
  /\ pcoll = SetEvalCollection
  /\ concurrent_level = 1
  /\ phase = "running"
  /\ err = ""
  /\ errarg = <<>>
  /\ published = <<>>
  /\ signals = {}
  /\ disk = EmptyDir
  /\ ctx = None
  /\ rset = None
  /\ cq = <<>>
  /\ ev = FALSE
  /\ sched_in_progress = TRUE
  /\ \E parallel \in 1..MaxParallel :
       pc = [t \in {Adapters[k] : k \in 1..parallel} |-> Thread("loop", None, 0)]

\* The steps of the RunnerAdapter threads.
NextAdapter == CheckFlag \/ GetSet \/ Poll \/ PopenFails

NextCancel == Cancel \/ CheckFlag \/ GetSet \/ Poll \/ PopenFails

SpecCancel == InitCancel /\ [][NextCancel]_vars

\* The runs of SpecCancel where no thread stops while it has a step to take.
FairCancel == SpecCancel /\ WF_vars(NextAdapter)

(***************************************************************************)
(* The states of a test.  SpecState starts from tests as created and sets  *)
(* their state with save_status, in any order and to any TestState.        *)
(***************************************************************************)
\* TestState: the members of the enumeration.
TestState ==
  {"WAITING", "IN_PROGRESS", "EXECUTED", "SUCCESS", "FAILURE", "SOFT_TIMEOUT",
   "HARD_TIMEOUT", "ERR_DEP", "ERR_OTHER"}

\* TestState.all_states(): the states a result can have.
all_states == {"SUCCESS", "FAILURE", "ERR_DEP", "HARD_TIMEOUT", "SOFT_TIMEOUT", "ERR_OTHER"}

\* test.save_status(state) on one of the tests.
SaveStatus ==
  \E n \in DOMAIN tests : \E state \in TestState :
    /\ tests' = [tests EXCEPT ![n] = save_status(tests[n], state)]
    /\ UNCHANGED <<rtvars, jobs, dep_rules, count, run_filter, pcoll, concurrent_level, phase, err, errarg,
                   sets, published, runvars>>

\* Three tests of the suite, just created.
InitState ==
  /\ InitTrackers
  /\ Loaded([i \in 1..3 |-> NewTest(Suite[i].path, Suite[i].comb, DefaultResources, <<>>, <<>>)],
            <<>>)

NextState == SaveStatus

SpecState == InitState /\ [][NextState]_vars

(***************************************************************************)
(* Claims on the resource tracker.                                         *)
(***************************************************************************)
\* Call i of the recorded run is alloc([1,1]).
IsAlloc11(i) == calls[i].op = "alloc" /\ calls[i].arg = <<1, 1>>

\* The first n recorded calls are all alloc([1,1]).
OnlyAlloc11(n) == n <= Len(calls) /\ \A i \in 1..n : IsAlloc11(i)

\* C1 as stated: on a fresh ResourceTracker([2,2]) two successive alloc([1,1])
\* succeed with two distinct non-zero ids, and a third alloc([1,1]) returns 0 as
\* long as none was freed.
C1_ThirdAllocFails ==
  /\ OnlyAlloc11(2) => calls[1].ret # 0 /\ calls[2].ret # 0 /\ calls[1].ret # calls[2].ret
  /\ \A n \in 3..Len(calls) : OnlyAlloc11(n) => calls[n].ret = 0

\* C1 amended: on a fresh ResourceTracker([2,2]) the first four successive
\* alloc([1,1]) succeed with four distinct non-zero ids; every further
\* alloc([1,1]) returns 0 as long as none was freed; once one of the four ids has
\* been freed, the next alloc([1,1]) succeeds again with a new non-zero id.
C1_FifthAllocFails ==
  /\ \A n \in 1..Len(calls) :
       (n <= 4 /\ OnlyAlloc11(n)) =>
          /\ calls[n].ret # 0
          /\ \A m \in 1..(n - 1) : calls[m].ret # calls[n].ret
  /\ \A n \in 5..Len(calls) : OnlyAlloc11(n) => calls[n].ret = 0
  /\ \A n \in 6..Len(calls) :
       ( /\ OnlyAlloc11(n - 2)
         /\ calls[n - 1].op = "free"
         /\ calls[n - 1].arg[1] \in {calls[m].ret : m \in 1..4}
         /\ IsAlloc11(n) )
       => /\ calls[n].ret # 0
          /\ \A m \in 1..(n - 1) : calls[m].ret # calls[n].ret

\* Four allocs succeeded, the fifth failed, the first id was freed and the alloc
\* that followed has been answered.
C1_Witness ==
  /\ Len(calls) = 7
  /\ OnlyAlloc11(5)
  /\ calls[6].op = "free" /\ calls[6].arg = <<calls[1].ret>>
  /\ IsAlloc11(7)

\* C2: alloc is all-or-nothing.  A call that returns an id returns one no leaf
\* held, leaves exactly product(need) leaves, all free before, holding it, and
\* changes no other leaf; a call that returns 0 leaves every leaf of every tree
\* as it was.
C2_AllOrNothing ==
  [][ last'.op = "alloc" =>
        \E k \in {last'.tracker}, id \in {last'.ret} :
        \E before \in {Leaves(trackers[k])}, after \in {Leaves(trackers'[k])} :
        \E mine \in {{i \in 1..Len(before) : after[i] = id}} :
            /\ \A j \in Trackers \ {k} : trackers'[j] = trackers[j]
            /\ id = 0 => trackers' = trackers
            /\ id # 0 =>
                 /\ \A j \in Trackers : Holding(trackers[j], id) = {}
                 /\ Cardinality(mine) = Product(last'.arg)
                 /\ \A i \in mine : before[i] = 0
                 /\ \A i \in (1..Len(before)) \ mine : after[i] = before[i]
    ]_vars

\* alloc([2,2]) on the [2,2] tracker has failed on its second child, after its
\* first child had been claimed whole by the attempt: that child is free again.
C2_Witness ==
  /\ last.op = "alloc" /\ last.tracker = 1 /\ last.arg = <<2, 2>> /\ last.ret = 0
  /\ Leaves(trackers[1])[1] = 0 /\ Leaves(trackers[1])[2] = 0
  /\ Leaves(trackers[1])[3] # 0 /\ Leaves(trackers[1])[4] = 0

\* C3: every id a successful alloc returns, on whichever tracker, is non-zero and
\* strictly greater than every id returned before (so none is returned twice).
C3_IdsIncrease ==
  \A i \in 1..Len(issued) :
    /\ issued[i] # 0
    /\ \A j \in 1..(i - 1) : issued[j] < issued[i]

\* Two ids were issued, both trackers hold one, and the last call was an alloc
\* that failed.
C3_Witness ==
  /\ Len(issued) = 2
  /\ \A k \in Trackers : \E l \in live : l.tracker = k
  /\ last.op = "alloc" /\ last.ret = 0

\* C4: free(id) sets to 0 every leaf of the tree that holds id and leaves every
\* other leaf (of that tree and of the other trees) unchanged; when no leaf
\* holds id, or id is 0, nothing changes.
C4_FreeFrame ==
  [][ last'.op = "free" =>
        \E k \in {last'.tracker}, id \in {last'.arg[1]} :
        \E before \in {Leaves(trackers[k])}, after \in {Leaves(trackers'[k])} :
            /\ \A i \in 1..Len(before) :
                 after[i] = IF before[i] = id THEN 0 ELSE before[i]
            /\ \A j \in Trackers \ {k} : trackers'[j] = trackers[j]
            /\ (id = 0 \/ \A i \in 1..Len(before) : before[i] # id)
                  => trackers' = trackers
    ]_vars

\* A free has cleared two leaves of the [2,2] tracker while another id keeps
\* its leaf there.
C4_Witness ==
  /\ last.op = "free" /\ last.tracker = 1 /\ last.changed = 2
  /\ \E i \in 1..4 : Leaves(trackers[1])[i] # 0

\* The leaves an allocation tree offers.
Capacity(k) == Product(TrackerDims[k])

\* C5: slots are exclusive and bounded.  Every claimed leaf is held by exactly
\* one live id, of that tracker; every live id holds exactly product(need)
\* leaves of its tracker; the claimed leaves never exceed the capacity.
C5_ExclusiveSlots ==
  \A k \in Trackers :
    \E leaves \in {Leaves(trackers[k])} :
      /\ \A i \in 1..Len(leaves) :
           leaves[i] # 0 =>
             /\ Cardinality({l \in live : l.id = leaves[i]}) = 1
             /\ \E l \in live : l.id = leaves[i] /\ l.tracker = k
      /\ \A l \in live :
           l.tracker = k =>
             Cardinality({i \in 1..Len(leaves) : leaves[i] = l.id}) = l.size
      /\ Cardinality({i \in 1..Len(leaves) : leaves[i] # 0}) <= Capacity(k)

\* The [2,2] tracker is full, shared by a live request of two leaves and two
\* live requests of one leaf.
C5_Witness ==
  /\ \A i \in 1..4 : Leaves(trackers[1])[i] # 0
  /\ \E l \in live : l.tracker = 1 /\ l.size = 2
  /\ Cardinality({l \in live : l.tracker = 1 /\ l.size = 1}) = 2

(***************************************************************************)
(* Claims on the dependency resolver.  The dependency graph of a pool is   *)
(* read off the names: it does not use the resolver.                       *)
(***************************************************************************)
PoolJobs == {jobs[i].job : i \in 1..Len(jobs)}

\* The name matches the id of a pool job or a key of the base-name buckets.
Defined(depname) ==
  \/ \E j \in PoolJobs : tests[j].jid = get_jid_from_name(depname)
  \/ depname \in DOMAIN dep_rules

\* The jobs a dependency name designates.
Designated(depname) ==
  IF \E j \in PoolJobs : tests[j].jid = get_jid_from_name(depname)
  THEN {j \in PoolJobs : tests[j].jid = get_jid_from_name(depname)}
  ELSE IF depname \in DOMAIN dep_rules
  THEN {dep_rules[depname][i] : i \in 1..Len(dep_rules[depname])}
  ELSE {}

\* The jobs the names of job j designate.
DependsOn(j) == UNION {Designated(tests[j].depnames[i]) : i \in 1..Len(tests[j].depnames)}

AllDefined ==
  \A j \in PoolJobs : \A i \in 1..Len(tests[j].depnames) : Defined(tests[j].depnames[i])

\* The jobs reached from the set S along at most n dependency edges.
RECURSIVE Within(_, _)
Within(S, n) ==
  IF n = 0 THEN S ELSE Within(S \cup UNION {DependsOn(j) : j \in S}, n - 1)

\* Job j lies on a cycle of the dependency graph.
OnCycle(j) == j \in Within(DependsOn(j), Cardinality(PoolJobs))

Cyclic == \E j \in PoolJobs : OnCycle(j)

Resolved == phase = "resolved"

\* C6: on a pool whose names are all defined and whose dependency graph is
\* acyclic, resolve_deps raises nothing and leaves on every job the jobs its
\* names designate, each once.
C6_AcyclicResolves ==
  (Resolved /\ AllDefined /\ ~Cyclic) =>
     /\ err = ""
     /\ \A j \in PoolJobs :
          /\ {tests[j].deps[i] : i \in 1..Len(tests[j].deps)} = DependsOn(j)
          /\ Len(tests[j].deps) = Cardinality(DependsOn(j))

\* A diamond has been resolved: a job has two dependencies, found through one
\* base name, that depend on one common job.
C6_Witness ==
  /\ Resolved /\ err = ""
  /\ \E j \in PoolJobs :
       \E d1 \in DependsOn(j), d2 \in DependsOn(j) :
          /\ d1 # d2
          /\ DependsOn(d1) \cap DependsOn(d2) # {}
          /\ Len(tests[j].deps) = 2 /\ Len(tests[j].depnames) = 1

\* C7 as stated: on a pool whose dependency graph has a cycle, resolve_deps ends
\* by raising CircularDependencyError.
C7_CycleRaisesCircular ==
  (Resolved /\ Cyclic) => err = "CircularDependencyError"

\* C7 amended: on a pool whose dependency graph has a cycle, resolve_deps ends
\* by raising CircularDependencyError when every name is defined, and by
\* raising CircularDependencyError or UndefDependencyError (for a name that
\* matches nothing) otherwise; the recursion is never cut by the interpreter.
C7_CycleRaises ==
  (Resolved /\ Cyclic) =>
     /\ err \in {"CircularDependencyError", "UndefDependencyError"}
     /\ AllDefined => err = "CircularDependencyError"
     /\ err = "UndefDependencyError" => ~Defined(errarg[1])

\* A cycle of three jobs, one edge of which goes through a base name, has been
\* reported with its chain of three names.
C7_Witness ==
  /\ Resolved /\ AllDefined /\ err = "CircularDependencyError"
  /\ Len(errarg) = 3
  /\ \A j \in PoolJobs : j \notin DependsOn(j)

\* C8 as stated: when some dependency name of the pool matches neither a job id
\* nor a bucket, resolve_deps raises UndefDependencyError for such a name.
C8_UndefRaisesUndef ==
  (Resolved /\ ~AllDefined) =>
     /\ err = "UndefDependencyError"
     /\ ~Defined(errarg[1])

\* C8 amended: when some dependency name of the pool matches neither a job id
\* nor a bucket, resolve_deps does not return normally: it raises
\* UndefDependencyError for such a name, unless it meets a circular dependency
\* first and raises CircularDependencyError; on an acyclic pool it is
\* UndefDependencyError.
C8_UndefRaises ==
  (Resolved /\ ~AllDefined) =>
     /\ err \in {"UndefDependencyError", "CircularDependencyError"}
     /\ err = "UndefDependencyError" =>
          /\ ~Defined(errarg[1])
          /\ \E j \in PoolJobs : In(errarg[1], tests[j].depnames)
     /\ ~Cyclic => err = "UndefDependencyError"

\* UndefDependencyError was raised for "zz" after the dependencies of an
\* earlier job had been resolved.
C8_Witness ==
  /\ Resolved /\ err = "UndefDependencyError" /\ errarg = <<"zz">>
  /\ \E j \in PoolJobs : Len(tests[j].deps) > 0

(***************************************************************************)
(* Claims on tag filtering.                                                *)
(***************************************************************************)
\* The jobs created for the run, in the pool or not.
AllJobs == DOMAIN tests

ResolvedDeps(j) == {tests[j].deps[i] : i \in 1..Len(tests[j].deps)}

\* The pool of the example: A carries only x, B carries only y and depends on A,
\* and the run filter is {y: true}.
Example(A, B) ==
  /\ A # B
  /\ tests[A].tags = <<"x">>
  /\ tests[B].tags = <<"y">>
  /\ ResolvedDeps(B) = {A}
  /\ run_filter = << <<"y", TRUE>> >>

\* C10: once filter_tags has run, no job out of the pool is a resolved
\* dependency of a job of the pool (filter_tags removed no job that had a
\* dependee in the pool), every resolved dependency of a job of the pool is in
\* the pool, and A and B of the example are both in the pool.
C10_DependeesKeep ==
  phase = "filtered" =>
     /\ \A r \in AllJobs \ PoolJobs : \A j \in PoolJobs : r \notin ResolvedDeps(j)
     /\ \A j \in PoolJobs : ResolvedDeps(j) \subseteq PoolJobs
     /\ \A A \in AllJobs, B \in AllJobs : Example(A, B) => {A, B} \subseteq PoolJobs

\* filter_tags has run on the example and removed a third job, which carried
\* the tag of A and had no dependee.
C10_Witness ==
  /\ phase = "filtered"
  /\ \E A \in PoolJobs, B \in PoolJobs, r \in AllJobs \ PoolJobs :
       /\ Example(A, B)
       /\ tests[r].tags = tests[A].tags

(***************************************************************************)
(* Claims on the run as a whole.                                           *)
(***************************************************************************)
\* No leaf of any tracker is held.
AllFree == \A k \in Trackers : \A i \in 1..Len(Leaves(trackers[k])) : Leaves(trackers[k])[i] = 0

\* resolve_deps has raised one of its two errors.
ResolveRaised == err \in {"UndefDependencyError", "CircularDependencyError"}

\* No job has left WAITING, no resource is or was allocated, no Set was built
\* and nothing was published.
NothingRan ==
  /\ \A j \in AllJobs : tests[j].state = "WAITING" /\ tests[j].alloc_tracking = 0
  /\ AllFree
  /\ issued = <<>>
  /\ sets = {}
  /\ published = <<>>
  /\ count.executed = 0

\* C9: whenever resolve_deps has raised UndefDependencyError or
\* CircularDependencyError, no job has left WAITING, no resource has been
\* allocated and nothing has been published (the executed counter is 0), and
\* no later step of the run changes a job, the pool, a tracker, a counter, the
\* Sets or the publications.
C9_NoPartialRun ==
  /\ [](ResolveRaised => NothingRan)
  /\ [][ResolveRaised =>
          UNCHANGED <<tests, jobs, count, sets, published, trackers,
                      alloc_tracking_counter, issued>>]_vars

\* resolve_deps raised on the last job of the pool, after it had resolved the
\* dependencies of an earlier one.
C9_Witness ==
  /\ phase = "resolved"
  /\ ResolveRaised
  /\ \E j \in AllJobs : Len(tests[j].deps) > 0

(***************************************************************************)
(* Claims on the scheduling loop.                                          *)
(***************************************************************************)
\* The states of a job whose result is known, and those that count as failed.
TerminalStates == {"SUCCESS", "FAILURE", "SOFT_TIMEOUT", "HARD_TIMEOUT", "ERR_DEP", "ERR_OTHER"}

BadStates == {"FAILURE", "HARD_TIMEOUT", "ERR_DEP", "ERR_OTHER"}

\* The Sets that the step has just built.
NewSets == {s \in sets' : \A o \in sets : o.content # s.content}

\* C11: every job that a create_subset step places in a Set has, in the state
\* the step leaves, each of its resolved dependencies in a terminal state that
\* is not a bad one, whether the job was selected itself or reached through the
\* walk down a dependency chain.
C11_DepsDoneAtHandOff ==
  [][\A s \in NewSets : \A i \in 1..Len(s.content) :
       \A d \in {tests'[s.content[i]].deps[k] : k \in 1..Len(tests'[s.content[i]].deps)} :
          tests'[d].state \in TerminalStates \ BadStates]_vars

\* A Set holds a job that has a dependency and that is itself the dependency
\* of a waiting job asking for more nodes: the scan selected that one first
\* and walked down to this one.
C11_Witness ==
  \E s \in sets : \E j \in {s.content[i] : i \in 1..Len(s.content)} :
     /\ tests[j].state = "IN_PROGRESS"
     /\ Len(tests[j].deps) > 0
     /\ \E k \in DOMAIN tests :
          /\ In(j, tests[k].deps)
          /\ tests[k].state = "WAITING"
          /\ tests[k].resources[1] > tests[j].resources[1]

\* Every dependency of j has a result and one of them is bad.
DepsBad(j) ==
  LET D == {tests[j].deps[k] : k \in 1..Len(tests[j].deps)} IN
  /\ D # {}
  /\ \A d \in D : tests[d].state \in TerminalStates
  /\ \E d \in D : tests[d].state \in BadStates

\* How many times j was handed to the publisher.
Published(j) == Cardinality({i \in 1..Len(published) : published[i] = j})

\* j was published with the result of a job that cannot be started.
NotStarted(j) ==
  /\ tests[j].state = "ERR_DEP"
  /\ tests[j].rc = -1
  /\ tests[j].exectime = 0
  /\ tests[j].output = NOSTART_STR
  /\ Published(j) = 1

\* The scheduling loop has nothing left to do.
RunDone == RunAt("running") /\ get_leftjob_count(count) = 0 /\ sets = {}

\* b depends on a alone, a on nothing, and the command of a has exited 1
\* within the time allowed.
FailedThenDependent(a, b) ==
  /\ tests[a].deps = <<>> /\ tests[b].deps = <<a>>
  /\ tests[a].rc = 1 /\ ~tests[a].has_hard_timeout /\ tests[a].output = stdout

\* C12: a job all of whose dependencies have completed, one at least in a bad
\* state, is waiting or is published as ERR_DEP with return code -1, time 0 and
\* the "cannot be started" output; a job becomes ERR_DEP straight from WAITING,
\* in the step that publishes it; and when the run is over, a job a that exited
\* 1 is FAILURE and the job b that depends on it is ERR_DEP, both published.
C12_FailedDepNeverRuns ==
  /\ [](\A j \in DOMAIN tests : DepsBad(j) => (tests[j].state = "WAITING" \/ NotStarted(j)))
  /\ [][\A j \in DOMAIN tests :
          (tests'[j].state = "ERR_DEP" /\ tests[j].state # "ERR_DEP")
             => (tests[j].state = "WAITING" /\ NotStarted(j)')]_vars
  /\ [](RunDone => \A a, b \in DOMAIN tests :
          FailedThenDependent(a, b)
             => /\ tests[a].state = "FAILURE" /\ Published(a) = 1
                /\ NotStarted(b))

\* The run is over with such a pair of jobs.
C12_Witness == RunDone /\ \E a, b \in DOMAIN tests : FailedThenDependent(a, b)

\* The resources a test asks for in the pools of FairRun.
LoopResources == {<<1, 1>>, <<2, 2>>}

\* The pools of FairRun: the tests of FilterSuite with at most MaxFilterDeps
\* dependency names each, all with a soft timeout or all without, no tag and
\* no run filter.
InitLoop ==
  /\ InitTrackers
  /\ \E dn \in [1..Len(FilterSuite) -> DepLists(MaxFilterDeps)],
        rs \in [1..Len(FilterSuite) -> LoopResources],
        st \in {NoTimeout, Some(SoftTimeout)} :
       Loaded([i \in 1..Len(FilterSuite) |->
                 [NewTest(FilterSuite[i].path, FilterSuite[i].comb, rs[i], dn[i], <<>>)
                    EXCEPT !.soft_timeout = st]],
              <<>>)

\* A call of create_subset would change something: ENABLED <<CreateSubset>>_vars,
\* written out.
CreateSubsetEnabled ==
  /\ Scheduling
  /\ \E r \in {default_create_subset(tests, jobs, count, published, trackers[1],
                                     alloc_tracking_counter, None)} :
       \/ phase # "running"
       \/ r.T # tests \/ r.J # jobs \/ r.cnt # count \/ r.pub # published
       \/ r.tracker # trackers[1] \/ r.counter # alloc_tracking_counter
       \/ r.set # <<>>
       \/ (r.allocs # <<>> /\ last # [op |-> "alloc", tracker |-> 1,
                                       arg |-> r.allocs[Len(r.allocs)].need,
                                       ret |-> r.allocs[Len(r.allocs)].ret,
                                       changed |-> r.allocs[Len(r.allocs)].changed])

\* The run of the whole program: once resolve_deps and filter_tags have
\* returned, the Orchestrator repeats create_subset and merge_subset for as
\* long as get_leftjob_count() is not 0, while the worker threads take the Sets
\* handed over and run them; none of the three stops while it has something to
\* do. The first conjunct is WF_vars(CreateSubset).
FairRun ==
  /\ InitLoop /\ [][NextRun]_vars
  /\ ([]<>(~CreateSubsetEnabled) \/ []<><<CreateSubset>>_vars)
  /\ WF_vars(LocalExec) /\ WF_vars(MergeSubset)

\* The resources a test asks for in the pools of FairChain: one or two nodes
\* with one core, or more cores of a node than a node of the tracker has.
ChainResources == {<<1, 1>>, <<2, 1>>, <<2, 3>>}

\* The pools of FairChain: the four tests of Suite, c depending on b_n2 and
\* b_n2 on a, no soft timeout, no tag and no run filter.
InitChain ==
  /\ InitTrackers
  /\ \E rs \in [1..Len(Suite) -> ChainResources] :
       Loaded([i \in 1..Len(Suite) |->
                 NewTest(Suite[i].path, Suite[i].comb, rs[i],
                         IF Suite[i].path = "c" THEN <<"b_n2">>
                         ELSE IF Suite[i].comb = "n2" THEN <<"a">> ELSE <<>>,
                         <<>>)],
              <<>>)

SpecChain == InitChain /\ [][NextPrune]_vars

\* The run over these pools with the scheduling loop, the runner threads and
\* the pruning of the jobs left when the loop has stalled; the first conjunct
\* is WF_vars(CreateSubset), the last WF_vars(Prune).
FairChain ==
  /\ SpecChain
  /\ ([]<>(~CreateSubsetEnabled) \/ []<><<CreateSubset>>_vars)
  /\ WF_vars(LocalExec) /\ WF_vars(MergeSubset)
  /\ ([]<>(~Stalled) \/ []<><<Prune>>_vars)

\* The states of a job that failed, timed out or could not be started.
FailedStates == {"FAILURE", "SOFT_TIMEOUT", "HARD_TIMEOUT", "ERR_DEP"}

\* The jobs j depends on, directly or not (within n steps).
RECURSIVE Ancestors(_, _)
Ancestors(j, n) ==
  IF n = 0 THEN {}
  ELSE LET D == {tests[j].deps[k] : k \in 1..Len(tests[j].deps)} IN
       D \cup UNION {Ancestors(d, n - 1) : d \in D}

\* j was run and published once, with the result of its own command.
RanAndPublished(j) ==
  /\ Published(j) = 1
  /\ tests[j].output = stdout
  /\ tests[j].exectime >= 1
  /\ tests[j].state = IF tests[j].has_hard_timeout THEN "HARD_TIMEOUT"
                      ELSE IF tests[j].rc # 0 THEN "FAILURE"
                      ELSE IF tests[j].soft_timeout # None
                              /\ tests[j].exectime > tests[j].soft_timeout[1]
                      THEN "SOFT_TIMEOUT"
                      ELSE "SUCCESS"

NeedsFit ==
  \A j \in DOMAIN tests :
     alloc(NewTracker(TrackerDims[1]), tests[j].resources, 1).ret # 0

\* Every job was handed to the publisher once, and none is left.
AllPublished ==
  /\ get_leftjob_count(count) = 0
  /\ Len(published) = Cardinality(DOMAIN tests)
  /\ \A j \in DOMAIN tests : Published(j) = 1 /\ tests[j].state \in TerminalStates

\* Three independent jobs of need [1,1] with no soft timeout, whose commands
\* have exited 0.
ThreeIndependentPassed ==
  /\ Cardinality(DOMAIN tests) = 3
  /\ \A j \in DOMAIN tests :
       /\ tests[j].deps = <<>> /\ tests[j].depnames = <<>>
       /\ tests[j].resources = <<1, 1>>
       /\ tests[j].soft_timeout = None
       /\ tests[j].rc = 0 /\ ~tests[j].has_hard_timeout /\ tests[j].output = stdout

\* C14: from the state where resolve_deps and filter_tags have returned without
\* an error, with needs that fit the empty tracker, the run reaches a state
\* where every job has been published once, get_leftjob_count() is 0 and no Set
\* is in flight; and when the run of three independent jobs of need [1,1] on
\* the [2,2] tracker is over, their commands having exited 0, exactly three
\* results have been published, all SUCCESS.
C14_RunCompletes ==
  /\ (RunAt("filtered") /\ NeedsFit) ~> (RunDone /\ AllPublished)
  /\ [](RunDone /\ ThreeIndependentPassed
          => /\ Len(published) = 3
             /\ \A j \in DOMAIN tests : tests[j].state = "SUCCESS" /\ Published(j) = 1)

\* The run of three independent jobs of need [1,1] is over, every command
\* having exited 0.
C14_Witness == RunDone /\ ThreeIndependentPassed /\ TrackerDims[1] = <<2, 2>>

(***************************************************************************)
(* Claims on the runner.                                                   *)
(***************************************************************************)
\* The step is local_exec of the Set s, its k-th job running the command o[k].
RanCommands(s, o) ==
  /\ s \in sets /\ ~s.completed
  /\ sets' = (sets \ {s}) \cup {[s EXCEPT !.completed = TRUE]}
  /\ tests' = local_exec(tests, s.content, o, 1)

\* C15: when local_exec runs a command that lasts longer than the hard timeout
\* of its job, the process group of the job is sent SIGTERM and the job is
\* recorded with the hard timeout as its time; and a job recorded as killed on
\* hard timeout that has gone through merge_subset is published, once, with
\* state HARD_TIMEOUT and that time, whatever its return code.
C15_HardTimeoutKills ==
  /\ [][\A s \in sets : \A o \in [1..Len(s.content) -> Commands] :
          RanCommands(s, o) =>
            \A k \in 1..Len(s.content) :
               o[k].duration > tests[s.content[k]].hard_timeout =>
                 /\ [job |-> s.content[k], signal |-> "SIGTERM"] \in signals'
                 /\ tests'[s.content[k]].exectime = tests[s.content[k]].hard_timeout
                 /\ tests'[s.content[k]].has_hard_timeout
                 /\ tests'[s.content[k]].state = "EXECUTED"]_vars
  /\ [](\A j \in DOMAIN tests :
          (tests[j].has_hard_timeout /\ tests[j].state # "EXECUTED") =>
            /\ tests[j].state = "HARD_TIMEOUT"
            /\ tests[j].exectime = tests[j].hard_timeout
            /\ Published(j) = 1)

\* A job killed on hard timeout has been merged: its return code is the
\* expected one and it is published as HARD_TIMEOUT.
C15_Witness ==
  \E j \in DOMAIN tests :
     /\ [job |-> j, signal |-> "SIGTERM"] \in signals
     /\ tests[j].state = "HARD_TIMEOUT"
     /\ tests[j].rc = expect_rc
     /\ Published(j) = 1

\* C18: the states of a result are absorbing: once the state of a job is one
\* of SUCCESS, FAILURE, SOFT_TIMEOUT, HARD_TIMEOUT, ERR_DEP and ERR_OTHER, no
\* step of the Manager or of the runner (create_subset, merge_subset, the
\* publication of a job that cannot run, prune_all_jobs_as_non_runnable, the
\* run of a Set) changes it.
C18_TerminalAbsorbing ==
  [][\A n \in DOMAIN tests :
       tests[n].state \in TerminalStates => tests'[n].state = tests[n].state]_vars

(***************************************************************************)
(* Claims on the RemoteContext.                                            *)
(***************************************************************************)
\* The content of the Set whose input was written.
InputContent == (CHOOSE s \in sets : TRUE).content

\* C16: once a fresh RemoteContext has read back the input file that
\* save_input_to_disk wrote for a Set, it has returned a Set with as many jobs,
\* in the same order, each with the jid and the invocation command of the
\* original, and its job count is that number.
C16_InputRoundTrip ==
  phase = "connected" =>
    /\ err = ""
    /\ rset # None
    /\ Len(rset[1]) = Len(InputContent)
    /\ \A i \in 1..Len(InputContent) :
         /\ rset[1][i].jid = tests[InputContent[i]].jid
         /\ rset[1][i].invocation_cmd = tests[InputContent[i]].invocation_cmd
    /\ ctx[1].cnt = Len(InputContent)

(***************************************************************************)
(* Claims on the states of a test.                                         *)
(***************************************************************************)
\* C17: been_executed() is true exactly when the state of the job is none of
\* WAITING, IN_PROGRESS and EXECUTED, that is when it is one of the six states
\* of a result: a test just created is WAITING and not executed, and
\* save_status leaves it not executed when it sets EXECUTED and executed when
\* it sets one of the six.
C17_BeenExecuted ==
  /\ InitState => \A n \in DOMAIN tests :
       tests[n].state = "WAITING" /\ ~been_executed(tests[n])
  /\ \A n \in DOMAIN tests :
       /\ tests[n].state \in TestState
       /\ been_executed(tests[n]) <=> tests[n].state \in all_states
       /\ been_executed(tests[n]) <=>
            tests[n].state \notin {"WAITING", "IN_PROGRESS", "EXECUTED"}
       /\ tests[n].state = "EXECUTED" => ~been_executed(tests[n])

\* One test was set to EXECUTED, one to SUCCESS, and one is still as created.
C17_Witness ==
  \E a, b, c \in DOMAIN tests :
    /\ tests[a].state = "EXECUTED" /\ ~been_executed(tests[a])
    /\ tests[b].state = "SUCCESS" /\ been_executed(tests[b])
    /\ tests[c].state = "WAITING" /\ ~been_executed(tests[c])

(***************************************************************************)
(* Claims on RunnerRemote.run.                                             *)
(***************************************************************************)
\* The chunks of the output file, as a reader finds them on the disk.
OnDisk == IF disk.output = None THEN <<>> ELSE disk.output[1]

\* The r-th record of the output file is whole: its line of metadata with the
\* magic token, its data of the length announced, its end of line.
WholeRecord(r) ==
  /\ OnDisk[3 * r - 2].k = "meta" /\ OnDisk[3 * r - 2].magic = MAGIC_TOKEN
  /\ OnDisk[3 * r - 1].k = "data" /\ OnDisk[3 * r - 1].data.len = OnDisk[3 * r - 2].len
  /\ OnDisk[3 * r].k = "eol"

\* The output file holds whole records only, one for each job of the Set
\* loaded and no other.
OneRecordPerJob ==
  /\ Len(OnDisk) = 3 * Len(rset[1])
  /\ \A r \in 1..Len(rset[1]) : WholeRecord(r)
  /\ \A i \in 1..Len(rset[1]) :
       Cardinality({r \in 1..Len(rset[1]) : OnDisk[3 * r - 2].jid = rset[1][i].jid}) = 1

\* A RunnerAdapter thread of this run() has been started.
AdapterStarted == \E w \in Workers : pc[w].at # "idle"

\* C19: during RunnerRemote.run the completion marker is there only while the
\* output file holds one whole record for each input job; no RunnerAdapter
\* thread has been started while a marker that run() did not make is there;
\* and the marker is made in a state where every input job has its record in
\* the file and the output file, if it was opened, is closed.
C19_MarkerAuthoritative ==
  /\ [](completed(disk) => OneRecordPerJob)
  /\ [](AdapterStarted /\ pc["main"].at # "done" => ~completed(disk))
  /\ [][~completed(disk) /\ completed(disk') =>
          /\ OneRecordPerJob
          /\ ctx[1].outfile # None => ctx[1].outfile[1].closed /\ ctx[1].outfile[1].buf = <<>>
          /\ \A w \in Workers : pc[w].at \in {"done", "dead"}]_vars

\* run() has returned for a Set of two jobs that two threads ran, one of the
\* jobs was killed at its hard timeout, and the marker is there, on a closed
\* file of two whole records.
C19_Witness ==
  /\ pc["main"].at = "done"
  /\ completed(disk)
  /\ Len(rset[1]) = 2
  /\ Cardinality(Workers) = 2
  /\ OneRecordPerJob
  /\ ctx[1].outfile # None /\ ctx[1].outfile[1].closed
  /\ \E i \in 1..2 : rset[1][i].has_hard_timeout
  /\ OnDisk # output_of([i \in 1..2 |-> loaded_job(tests[(CHOOSE s \in sets : TRUE).content[i]])], 1)

(***************************************************************************)
(* Claims on remote_exec.                                                  *)
(***************************************************************************)
\* The wrapper process of the Set of that id could not be started, or has
\* exited with a return code that is not 0.
WrapperFailed(id) ==
  LET p == pc["p" \o ToString(id)] IN
  p.at = "failed" \/ (p.at = "exited" /\ p.n # 0)

\* The step ends the remote_exec call on the Set of that id.
RemoteExecEnds(id) ==
  \E w \in Workers :
    /\ pc[w].at \in {"exec", "communicate"}
    /\ pc[w].item[1].id = id /\ pc[w].item[1].execmode # "LOCAL"
    /\ pc'[w].at \in {"loop", "dead"}

RaisedLaunchError(s) == err = "LaunchError" /\ errarg = <<remote_cmd(s)>>

\* The part of C20 on the exception: a remote_exec call whose wrapper failed
\* ends by raising LaunchError with the command.
C20_Raises ==
  [][\A s \in sets : RemoteExecEnds(s.id) /\ WrapperFailed(s.id)' => RaisedLaunchError(s)']_vars

\* The part of C20 on the jobs: none of the jobs of a Set whose wrapper failed
\* is EXECUTED or has a result, and none was published.
C20_Unresolved ==
  \A s \in sets : WrapperFailed(s.id) =>
    \A k \in 1..Len(s.content) :
      /\ tests[s.content[k]].state \notin {"EXECUTED"} \cup TerminalStates
      /\ Published(s.content[k]) = 0

\* The part of C20 on the other Sets: once a wrapper has failed, every Set
\* still in rq is taken and run.
C20_OthersContinue ==
  \A id \in {1, 2} : WrapperFailed(id) ~> (rq = <<>>)

\* C20: when the wrapper process of an ALLOC, REMOTE or BATCH Set fails to
\* start or exits abnormally, remote_exec raises LaunchError with the command,
\* none of the jobs of the Set is marked EXECUTED or published, and the other
\* Sets go on being executed.
C20_LaunchError == C20_Raises /\ [](C20_Unresolved) /\ C20_OthersContinue

(***************************************************************************)
(* Claims on add_job.                                                      *)
(***************************************************************************)
\* The bucket of a base name; empty when the name has none.
Bucket(rules, basename) == IF basename \in DOMAIN rules THEN rules[basename] ELSE <<>>

\* The base names of the candidates.
BaseNames == {t.basename : t \in AddCandidates}

\* C23: add_job of a job whose id is in the pool changes neither the pool, nor
\* the total, nor the buckets; add_job of a new id puts it at the end of the
\* pool, adds one to the total and appends the job to the bucket of its base
\* name, the other buckets being left as they are.
C23_AddJobIdempotent ==
  [][\A t \in AddCandidates :
       AddJob(t) =>
         IF \E i \in 1..Len(jobs) : jobs[i].jid = t.jid
         THEN jobs' = jobs /\ count' = count /\ dep_rules' = dep_rules
         ELSE /\ jobs' = jobs \o <<[jid |-> t.jid, job |-> t.name]>>
              /\ count'.total = count.total + 1
              /\ count'.executed = count.executed
              /\ \A b \in BaseNames :
                   Bucket(dep_rules', b) =
                     IF b = t.basename THEN Bucket(dep_rules, b) \o <<t.name>>
                     ELSE Bucket(dep_rules, b)]_vars

\* add_job was called twice for one id, and twice for one base name with two ids.
C23_Witness ==
  /\ \E i, j \in 1..Len(calls) : i < j /\ calls[i].jid = calls[j].jid
  /\ Len(Bucket(dep_rules, "b")) = 2
  /\ count.total = Cardinality({calls[i].jid : i \in 1..Len(calls)})
  /\ Len(jobs) = count.total

(***************************************************************************)
(* Claims on merge_subset.                                                 *)
(***************************************************************************)
\* C24: merge_subset of a completed Set hands its jobs to the publisher in the
\* order of the Set, each once, after what was published before, and leaves
\* each of them in a terminal state; it raises nothing.
C24_MergeInOrder ==
  [][MergeLaunched /\ Head(cq).completed =>
       /\ published' = published \o Head(cq).content
       /\ \A i, j \in 1..Len(Head(cq).content) :
            i # j => Head(cq).content[i] # Head(cq).content[j]
       /\ \A i \in 1..Len(Head(cq).content) :
            tests'[Head(cq).content[i]].state \in TerminalStates
       /\ err' = err]_vars

\* The second Set, of two jobs, was run in LOCAL mode and merged: only its
\* jobs are published.
C24_Witness ==
  /\ Len(published) = 2 /\ published[1] # published[2]
  /\ \A s \in sets : s.id # 2
  /\ \A i \in 1..Len(published) : tests[published[i]].state \in TerminalStates

(***************************************************************************)
(* Claims on create_subset and the default algorithm.                      *)
(***************************************************************************)
\* The step is invoked exactly once in the list.
InvokedOnce(inv, step) == Cardinality({i \in 1..Len(inv) : inv[i] = step}) = 1

\* SCHED_SET_BEFORE comes first, SCHED_SET_AFTER last, each once.
HooksAround(inv) ==
  /\ Len(inv) >= 2
  /\ inv[1] = "SCHED_SET_BEFORE" /\ inv[Len(inv)] = "SCHED_SET_AFTER"
  /\ InvokedOnce(inv, "SCHED_SET_BEFORE") /\ InvokedOnce(inv, "SCHED_SET_AFTER")

\* The hooks of a call that the default algorithm serves.
C22_DefaultHooks ==
  [][CreateSubset /\ "SCHED_SET_EVAL" \notin pcoll.enabled => HooksAround(pcoll'.invoked)]_vars

\* The hooks of a call that returns.
C22_ReturnHooks == [][CreateSubset /\ err' = "" => HooksAround(pcoll'.invoked)]_vars

\* C22: every create_subset call invokes SCHED_SET_BEFORE before the Set is
\* built and SCHED_SET_AFTER after it, once each, whether the default algorithm
\* or the SCHED_SET_EVAL plugin builds the Set and whatever comes of it.
C22_HooksAlways == [][CreateSubset => HooksAround(pcoll'.invoked)]_vars

\* What the default algorithm does when it is called in this state.
ThisCall ==
  default_create_subset(tests, jobs, count, published, trackers[1], alloc_tracking_counter,
                        None)

\* The call asks the tracker for the need of a candidate and is refused; the
\* candidate is the last job kept for rescheduling.
AllocRefused == ThisCall.allocs # <<>> /\ ThisCall.allocs[Len(ThisCall.allocs)].ret = 0

Refused == ThisCall.resched[Len(ThisCall.resched)]

\* A job of the pool that is ready to run and whose need the tracker can serve.
Fits(j) ==
  /\ \E i \in 1..Len(jobs) : jobs[i].job = j
  /\ tests[j].state = "WAITING"
  /\ \A i \in 1..Len(tests[j].deps) : tests[tests[j].deps[i]].state \in TerminalStates
  /\ \A i \in 1..Len(tests[j].deps) : tests[tests[j].deps[i]].state \notin BadStates
  /\ alloc(trackers[1], tests[j].resources, alloc_tracking_counter).ret > 0

\* A refused allocation raises nothing and leaves the candidate WAITING in the pool.
C25_RefusedWaits ==
  [][CreateSubset /\ AllocRefused =>
       /\ err' = ""
       /\ tests'[Refused].state = "WAITING"
       /\ \E i \in 1..Len(jobs') : jobs'[i].job = Refused]_vars

\* C25: when the tracker refuses the need of the candidate, create_subset
\* raises nothing and goes on with the other candidates of the pool, so that
\* a candidate whose need fits is handed over in a Set by the same call; the
\* refused job stays WAITING, in the pool.
C25_ScanContinues ==
  [][CreateSubset /\ AllocRefused =>
       /\ err' = ""
       /\ tests'[Refused].state = "WAITING"
       /\ \E i \in 1..Len(jobs') : jobs'[i].job = Refused
       /\ (\E j \in DOMAIN tests : Fits(j)) => sets' \ sets # {}]_vars

(***************************************************************************)
(* Claims on the Set the default algorithm returns.                        *)
(***************************************************************************)

\* C26: a Set returned by the default algorithm holds exactly one job, is
\* LOCAL, and its job is IN_PROGRESS; when no plugin is enabled for
\* SCHED_JOB_EVAL the job carries the identifier, not zero, that the tracker
\* returned for the need of the job.
C26_DefaultSet ==
  [][CreateSubset /\ "SCHED_SET_EVAL" \notin pcoll.enabled =>
       \A s \in sets' \ sets :
         /\ Len(s.content) = 1
         /\ s.execmode = "LOCAL"
         /\ tests'[s.content[1]].state = "IN_PROGRESS"
         /\ "SCHED_JOB_EVAL" \notin pcoll.enabled =>
              /\ tests'[s.content[1]].alloc_tracking # 0
              /\ last'.op = "alloc"
              /\ last'.arg = tests[s.content[1]].resources
              /\ last'.ret = tests'[s.content[1]].alloc_tracking]_vars

C26_Witness ==
  /\ pcoll.enabled = {}
  /\ pcoll.invoked = <<"SCHED_SET_BEFORE", "SCHED_SET_AFTER">>
  /\ \E s \in sets :
       /\ ~s.completed
       /\ s.execmode = "LOCAL"
       /\ Len(s.content) = 1
       /\ tests[s.content[1]].state = "IN_PROGRESS"
       /\ tests[s.content[1]].alloc_tracking > 0
       /\ last.ret = tests[s.content[1]].alloc_tracking

\* The job j is in the pool J.
InPool(T, J, j) == \E i \in 1..Len(J) : J[i].job = j /\ J[i].jid = T[j].jid

\* C27: the scan of the default algorithm loses no job: a job of the pool
\* that is still WAITING when create_subset returns is in the pool then,
\* whether it was skipped for pending dependencies, replaced by one of its
\* dependencies, or refused by the tracker.
C27_NoJobLost ==
  [][CreateSubset /\ "SCHED_SET_EVAL" \notin pcoll.enabled =>
       \A j \in DOMAIN tests :
         InPool(tests, jobs, j) /\ tests'[j].state = "WAITING" => InPool(tests', jobs', j)]_vars

\* A call has just returned in which a job was refused by the tracker, and a
\* WAITING job whose dependency is running is in the pool.
C27_Witness ==
  /\ pcoll.invoked = <<"SCHED_SET_BEFORE", "SCHED_SET_AFTER">>
  /\ last.op = "alloc" /\ last.ret = 0
  /\ \E j \in DOMAIN tests :
       /\ tests[j].state = "WAITING"
       /\ tests[j].resources = last.arg
       /\ InPool(tests, jobs, j)
  /\ \E j \in DOMAIN tests :
       /\ tests[j].state = "WAITING"
       /\ \E i \in 1..Len(tests[j].deps) : tests[tests[j].deps[i]].state = "IN_PROGRESS"
       /\ InPool(tests, jobs, j)

\* During a run every WAITING job is in the pool.
WaitingInPool ==
  phase = "running" => \A j \in DOMAIN tests : tests[j].state = "WAITING" => InPool(tests, jobs, j)

(***************************************************************************)
(* Claims on the walk down the dependencies.                               *)
(***************************************************************************)

\* For a job the scan of this call found with pending dependencies, and the
\* dependency the walk ended on: the job is not scheduled, is WAITING and in
\* the pool when the call returns.
SelectedWaits(job) ==
  /\ tests'[job].state = "WAITING"
  /\ InPool(tests', jobs', job)
  /\ \A s \in sets' \ sets : ~In(job, s.content)

\* The dependency the walk ended on was waiting, all its own dependencies are
\* complete, and the call tried to schedule it: it was published ERR_DEP for
\* a failed dependency, or the tracker was asked for its need, and the job is
\* alone in the new Set if the tracker served it, still WAITING if not.
Attempted(dep, is_last) ==
  /\ tests[dep].state = "WAITING"
  /\ has_completed_deps(tests', dep)
  /\ \/ /\ has_failed_dep(tests', dep)
        /\ tests'[dep].state = "ERR_DEP"
        /\ published' # published /\ In(dep, published')
     \/ /\ ~has_failed_dep(tests', dep)
        /\ is_last
        /\ last'.op = "alloc" /\ last'.arg = tests[dep].resources
        /\ IF last'.ret > 0
           THEN /\ tests'[dep].state = "IN_PROGRESS"
                /\ \E s \in sets' \ sets : s.content = <<dep>>
           ELSE /\ tests'[dep].state = "WAITING"
                /\ sets' = sets

\* The states of a job that was handed over in a Set and is not merged yet:
\* picked, or run by the thread of the runner.
HandedOver == {"IN_PROGRESS", "EXECUTED"}

\* The walk from job ended on no dependency: job or one of the jobs it
\* depends on is waiting for dependencies none of which is WAITING, one at
\* least being run; the scan goes on, so that the tracker is asked for a job
\* if one of the pool is ready.
MovedOn(job) ==
  /\ \E d \in {job} \cup Ancestors(job, Len(FilterSuite)) :
       /\ tests[d].state = "WAITING"
       /\ \A i \in 1..Len(tests[d].deps) : tests[tests[d].deps[i]].state # "WAITING"
       /\ \E i \in 1..Len(tests[d].deps) : tests[tests[d].deps[i]].state \in HandedOver
  /\ (\E r \in DOMAIN tests :
        /\ InPool(tests, jobs, r) /\ tests[r].state = "WAITING"
        /\ has_completed_deps(tests, r) /\ ~has_failed_dep(tests, r))
     => ThisCall.allocs # <<>>

\* C28: a job the scan selects while it has incomplete dependencies is not
\* scheduled; the walk goes down its first incomplete dependencies to a
\* waiting dependency whose dependencies are complete, which the call tries
\* to schedule instead, or, when the incomplete ones are running, the scan
\* goes on with the next candidate; the selected job is WAITING and in the
\* pool when the call returns.
C28_DependencyWalk ==
  [][CreateSubset /\ pcoll.enabled = {} =>
       \A k \in 1..Len(ThisCall.walks) :
         LET job == ThisCall.walks[k].job
             dep == ThisCall.walks[k].dep
         IN  /\ SelectedWaits(job)
             /\ IF dep # NoJob
                THEN /\ dep \in Ancestors(job, Len(FilterSuite))
                     /\ Attempted(dep, k = Len(ThisCall.walks))
                ELSE MovedOn(job)]_vars

\* The job d was scheduled by the last allocation, through the walk from j,
\* which has more nodes and so is taken first by the scan, and whose only
\* dependency is d; j is WAITING in the pool.
C28_Witness ==
  \E j, d \in DOMAIN tests :
    /\ tests[j].deps = <<d>>
    /\ get_nb_nodes(tests[j]) > get_nb_nodes(tests[d])
    /\ tests[j].state = "WAITING" /\ InPool(tests, jobs, j)
    /\ tests[d].state = "IN_PROGRESS"
    /\ last.op = "alloc" /\ last.ret > 0 /\ last.ret = tests[d].alloc_tracking
    /\ \E s \in sets : s.content = <<d>> /\ ~s.completed

(***************************************************************************)
(* Claims on the jobs whose dependencies fail.                             *)
(***************************************************************************)

\* B depends on A and C on B, and A is in a bad state.
BrokenChain(A, B, C) ==
  /\ In(A, tests[B].deps)
  /\ In(B, tests[C].deps)
  /\ tests[A].state \in bad_states

\* j was published once, as ERR_DEP.
PublishedErrDep(j) == tests[j].state = "ERR_DEP" /\ Published(j) = 1

\* j was never picked nor given resources, and if it was published, then
\* once, as ERR_DEP.
NeverStarted(j) ==
  /\ tests[j].state \in {"WAITING", "ERR_DEP"}
  /\ tests[j].alloc_tracking = 0
  /\ Published(j) > 0 => PublishedErrDep(j)

\* C29: when A ends in a bad state, B depends on A and C depends on B, both
\* B and C are published ERR_DEP, once each, and neither is ever IN_PROGRESS
\* nor given resources.
C29_ErrDepChain ==
  /\ (\E A, B, C \in DOMAIN tests : BrokenChain(A, B, C))
       ~> (\A A, B, C \in DOMAIN tests :
             BrokenChain(A, B, C) => PublishedErrDep(B) /\ PublishedErrDep(C))
  /\ [](\A A, B, C \in DOMAIN tests :
          BrokenChain(A, B, C) => NeverStarted(B) /\ NeverStarted(C))

(***************************************************************************)
(* Claims on the fixed point of the tag filtering.                         *)
(***************************************************************************)

\* C30: filter_tags returns, and when it does every job left in the pool has
\* should_run() true, a job kept only for its dependees being removed once
\* they all are, and the total counter, decremented once per removed job, is
\* the size of the pool.
C30_FilterFixedPoint ==
  [][FilterTags =>
       /\ err' = ""
       /\ \A i \in 1..Len(jobs') : should_run(tests'[jobs'[i].job], run_filter)
       /\ count'.total = count.total - (Len(jobs) - Len(jobs'))
       /\ count'.total = Len(jobs')]_vars

\* Whether or not filter_tags returns, the total counter is the size of the
\* pool and no job with a dependee was removed.
C30_CountIsPoolSize ==
  [][FilterTags =>
       /\ count'.total = Len(jobs')
       /\ err' \in {"", "RuntimeError"}
       /\ err' = "" => jobs' = jobs]_vars

(***************************************************************************)
(* Claims on the dependee lists.                                           *)
(***************************************************************************)

\* The jobs of the pool J.
Pool(J) == {J[i].job : i \in 1..Len(J)}

\* Among the jobs of the pool, the dependee lists are the transpose of the
\* dependency lists.
Transposed(T, J) ==
  \A X, Y \in Pool(J) : In(Y, T[X].dependee) <=> In(X, T[Y].deps)

\* No dependee list of a job of the pool names a job that is not in the pool.
NoDangling(T, J) ==
  \A X \in Pool(J) : \A k \in 1..Len(T[X].dependee) : T[X].dependee[k] \in Pool(J)

\* C31: after the transposition and after every removal of filter_tags, for
\* all jobs X and Y of the pool, Y is in the dependee list of X iff X is among
\* the resolved dependencies of Y, and no dependee list names a removed job.
C31_DependeesTransposed ==
  [][FilterTags =>
       /\ Transposed(transpose_dep_graph(tests, jobs, 1), jobs)
       /\ NoDangling(transpose_dep_graph(tests, jobs, 1), jobs)
       /\ Transposed(tests', jobs')
       /\ NoDangling(tests', jobs')]_vars

\* filter_tags has removed a job that has a dependency in the pool, and a job
\* of the pool still has a dependee.
C31_Witness ==
  /\ phase = "filtered"
  /\ \E Y \in DOMAIN tests \ Pool(jobs) :
       \E k \in 1..Len(tests[Y].deps) : tests[Y].deps[k] \in Pool(jobs)
  /\ \E X \in Pool(jobs) : tests[X].dependee # <<>>

(***************************************************************************)
(* Claims on the counters of the Manager.                                  *)
(***************************************************************************)

\* The number of publications of a job that is in the state S.
PublishedIn(S) == Cardinality({i \in 1..Len(published) : tests[published[i]].state = S})

\* The executed counter is the number of publications.
C32_ExecutedExact == get_count(count, "executed") = Len(published)

\* C32: after any sequence of publications get_count('executed') is the
\* number of published jobs and, for every state S, get_count(str(S)) is the
\* number of published jobs whose final state is S, so that the counts of the
\* states sum to the executed count.
C32_CountersExact ==
  /\ get_count(count, "executed") = Len(published)
  /\ \A S \in TerminalStates : get_count(count, S) = PublishedIn(S)

(***************************************************************************)
(* Claims on the order of the states of a job.                             *)
(***************************************************************************)

\* One step of the chain WAITING, IN_PROGRESS, EXECUTED, terminal state.
ChainStep(s, t) ==
  \/ s = "WAITING" /\ t = "IN_PROGRESS"
  \/ s = "IN_PROGRESS" /\ t = "EXECUTED"
  \/ s = "EXECUTED" /\ t \in TerminalStates

\* The step of a job that is not started: from WAITING to ERR_DEP or ERR_OTHER.
NotStartedStep(s, t) == s = "WAITING" /\ t \in {"ERR_DEP", "ERR_OTHER"}

\* C33: every state change of a job is one step of the chain WAITING,
\* IN_PROGRESS, EXECUTED, one of the terminal states; none is skipped and none
\* goes backwards.
C33_StateChain ==
  [][\A j \in DOMAIN tests :
       tests'[j].state # tests[j].state => ChainStep(tests[j].state, tests'[j].state)]_vars

\* Every state change is a step of the chain or the step of a job that is not
\* started.
C33_ChainOrNotStarted ==
  [][\A j \in DOMAIN tests :
       tests'[j].state # tests[j].state =>
         \/ ChainStep(tests[j].state, tests'[j].state)
         \/ NotStartedStep(tests[j].state, tests'[j].state)]_vars

(***************************************************************************)
(* Claims on the results that come back from the remote runner.            *)
(***************************************************************************)
\* The file that LoadResult reads, as lines.
ResultLines == readlines(disk.output[1], 1, <<>>)

\* Each record of the file is two lines: its metadata, then its data (empty
\* or not) closed by an end of line.
PairedLines ==
  LET C == disk.output[1] IN
  /\ Len(C) % 3 = 0
  /\ Len(ResultLines) = 2 * (Len(C) \div 3)
  /\ \A r \in 1..(Len(C) \div 3) :
       /\ ResultLines[2 * r - 1] = <<C[3 * r - 2]>>
       /\ C[3 * r - 2].k = "meta"
       /\ C[3 * r - 2].magic = MAGIC_TOKEN
       /\ ResultLines[2 * r] = (IF C[3 * r - 2].len > 0 THEN <<C[3 * r - 1]>> ELSE <<>>)
                                  \o <<C[3 * r]>>
       /\ C[3 * r - 1].k = "data"
       /\ C[3 * r - 1].data.len = C[3 * r - 2].len

\* The job of the remote runner with the id of the job n of the Manager.
RemoteOf(n) == {k \in 1..Len(rset[1]) : rset[1][k].jid = tests[n].jid}

\* C34: whatever jobs were saved, in any order and with or without output,
\* loading the file pairs each line of metadata with its own line of data,
\* raises nothing, gives each job of the Set that has a record the execution
\* time, the return code and the output that were saved and the state
\* EXECUTED, and leaves the jobs without a record as they were.
C34_ResultRoundTrip ==
  [][LoadResult =>
       /\ PairedLines
       /\ err' = ""
       /\ \A n \in DOMAIN tests :
            IF \E k \in RemoteOf(n) : Saved(k)
            THEN \A k \in RemoteOf(n) :
                   /\ tests'[n].exectime = rset[1][k].exectime
                   /\ tests'[n].rc = rset[1][k].rc
                   /\ tests'[n].output = rset[1][k].output
                   /\ tests'[n].state = "EXECUTED"
            ELSE tests'[n] = tests[n]]_vars

\* Two of the jobs have been saved, not in the order of the Set, one with
\* output and one without, with different return codes, and loaded.
C34_Witness ==
  /\ phase = "loaded"
  /\ err = ""
  /\ Len(disk.output[1]) = 6
  /\ \E s \in sets :
       \E i, j \in 1..Len(s.content) :
          /\ i < j
          /\ disk.output[1][1].jid = tests[s.content[j]].jid
          /\ disk.output[1][4].jid = tests[s.content[i]].jid
          /\ tests[s.content[i]].output = ""
          /\ tests[s.content[j]].output = stdout
          /\ tests[s.content[i]].rc # tests[s.content[j]].rc
          /\ tests[s.content[i]].state = "EXECUTED"
          /\ \E l \in 1..Len(s.content) : tests[s.content[l]].state = "IN_PROGRESS"

(***************************************************************************)
(* Claims on the end of RunnerRemote.run.                                  *)
(***************************************************************************)
\* The records on the disk, one by one.
DiskRecords == {i \in 1..Len(disk.output[1]) : disk.output[1][i].k = "meta"}

\* The places where the k-th job of the Set is: in a Set of the ready queue, in
\* the Set a RunnerAdapter thread holds, in a Set of the completion queue.
Places(k) ==
  Cardinality({i \in 1..Len(rq) : In(k, rq[i].content)})
    + Cardinality({w \in Workers : pc[w].item # None /\ In(k, pc[w].item[1].content)})
    + Cardinality({i \in 1..Len(cq) : In(k, cq[i].content)})

\* A RunnerAdapter thread has died on an exception.
SomeDead == \E w \in Workers : pc[w].at = "dead"

\* run() has returned: one record per job in the file, the event set, every
\* RunnerAdapter thread out of its loop, the marker made.
RunReturned ==
  /\ pc["main"].at = "done"
  /\ pc["progress"].at = "done"
  /\ ev
  /\ \A w \in Workers : pc[w].at = "done"
  /\ completed(disk)
  /\ IF Len(rset[1]) = 0 THEN disk.output = None \/ DiskRecords = {}
     ELSE /\ disk.output # None
          /\ Cardinality(DiskRecords) = Len(rset[1])
          /\ \A k \in 1..Len(rset[1]) :
               \E i \in DiskRecords :
                  /\ disk.output[1][i].jid = rset[1][k].jid
                  /\ disk.output[1][i + 1].data = b64_output_bytes(rset[1][k])
  /\ \A k \in 1..Len(rset[1]) : rset[1][k].state = "EXECUTED"

\* From the moment it is put in the ready queue until its record is written,
\* a job is in one place, which one RunnerAdapter thread takes it from; it is
\* run once, and once it has been run it is not run again.
OneWorkerEach ==
  /\ \A k \in 1..Len(rset[1]) :
       IF k > pc["main"].n \/ pc["main"].at \in {"start", "start_progress", "start_workers"}
       THEN Places(k) = 0 /\ rset[1][k].state # "EXECUTED"
       ELSE /\ Places(k) <= 1
            /\ (Places(k) = 0) =>
                 \/ SomeDead
                 \/ rset[1][k].state = "EXECUTED"
  /\ \A i \in 1..Len(rq) : \A k \in 1..Len(rset[1]) :
       In(k, rq[i].content) => rset[1][k].state # "EXECUTED"
  /\ \A i \in 1..Len(cq) : \A k \in 1..Len(rset[1]) :
       In(k, cq[i].content) => rset[1][k].state = "EXECUTED"
  /\ \A w \in Workers : \A k \in 1..Len(rset[1]) :
       (pc[w].item # None /\ In(k, pc[w].item[1].content)) => rset[1][k].state # "EXECUTED"

\* C35: when no RunnerAdapter thread dies, run() returns: the file holds one
\* record for each of the n jobs, each of them run by one thread, the event
\* is set, every RunnerAdapter thread has left its loop and the marker is
\* there.
C35_RunTerminates ==
  /\ []OneWorkerEach
  /\ (<>SomeDead) \/ <>[]RunReturned

\* run() has returned for two jobs and two RunnerAdapter threads, one of the
\* jobs having been killed at its hard timeout.
C35_Witness ==
  /\ RunReturned
  /\ Len(rset[1]) = MaxSetLen
  /\ Cardinality(Workers) = MaxParallel
  /\ \E k \in 1..Len(rset[1]) : rset[1][k].has_hard_timeout

(***************************************************************************)
(* Claims on the Sets of the completion queue.                             *)
(***************************************************************************)
\* C36: every Set that a RunnerAdapter thread has put in the completion queue
\* has all its jobs EXECUTED, so that the assertion of merge_subset holds:
\* also when the flag is cleared while a job runs, and when a Set that is
\* not LOCAL comes back with no output or part of it.
C36_QueuedExecuted ==
  \A i \in 1..Len(cq) :
     \A k \in 1..Len(cq[i].content) : tests[cq[i].content[k]].state = "EXECUTED"

(***************************************************************************)
(* Claims on the verdict of a job that was run by the remote runner.       *)
(***************************************************************************)
\* The state that merge_subset gives the job of the remote runner when its
\* Set is LOCAL: evaluate() of the job as local_exec has left it.
LocalVerdict(k) == evaluate(rset[1][k]).state

\* C37: the job whose result went through the output file is published in
\* the state it is published in when its Set is run in LOCAL mode; a job that
\* the remote runner killed at its hard timeout is published HARD_TIMEOUT.
C37_SameVerdict ==
  [][MergeResult =>
       \A n \in DOMAIN tests :
          tests'[n].state # tests[n].state =>
            \A k \in RemoteOf(n) :
               /\ tests'[n].state = LocalVerdict(k)
               /\ rset[1][k].has_hard_timeout => tests'[n].state = "HARD_TIMEOUT"]_vars

\* The same for the jobs that were not killed at their hard timeout.
C37_SameVerdictInTime ==
  [][MergeResult =>
       \A n \in DOMAIN tests :
          tests'[n].state # tests[n].state =>
            \A k \in RemoteOf(n) :
               ~rset[1][k].has_hard_timeout => tests'[n].state = LocalVerdict(k)]_vars

(***************************************************************************)
(* Claims on the allocations of the default algorithm.                     *)
(***************************************************************************)
\* The ids that hold a leaf of the tracker.
HeldIds(self) == {Leaves(self)[i] : i \in 1..Len(Leaves(self))} \ {0}

\* The jobs of the Sets in flight.
InFlight(S) == {s.content[k] : s \in S, k \in {1}}

\* C38: the default algorithm asks for an allocation only for a job that is
\* WAITING; the job of an allocation that succeeds records the id, is made
\* IN_PROGRESS by the same call and is the job of the Set returned, and an
\* allocation that fails claims nothing; when the call ends every id that
\* holds leaves is the id of one job of a Set in flight, and the job of the
\* Set returned was in no Set before and is in no other.
C38_NoAllocationLeak ==
  [][CreateSubset =>
       /\ \A i \in 1..Len(ThisCall.allocs) :
            LET a == ThisCall.allocs[i] IN
            /\ tests[a.job].state = "WAITING"
            /\ a.job \notin InFlight(sets)
            /\ IF a.ret # 0
               THEN /\ tests'[a.job].state = "IN_PROGRESS"
                    /\ tests'[a.job].alloc_tracking = a.ret
                    /\ ThisCall.set = <<a.job>>
                    /\ \E s \in sets' \ sets : s.content = <<a.job>>
                    /\ HeldIds(trackers'[1]) = HeldIds(trackers[1]) \cup {a.ret}
               ELSE /\ trackers' = trackers
                    /\ ThisCall.set = <<>>
                    /\ tests'[a.job].state = "WAITING"
       /\ ThisCall.allocs = <<>> => trackers' = trackers /\ sets' = sets
       /\ \A id \in HeldIds(trackers'[1]) :
            Cardinality({j \in InFlight(sets') : tests'[j].alloc_tracking = id}) = 1
       /\ \A s, t \in sets' : s.content = t.content => s = t
       /\ \A s \in sets' : Len(s.content) = 1]_vars

\* A call has made a second allocation while the job of the first one is
\* still in flight, and another job waits.
C38_Witness ==
  /\ last.op = "alloc" /\ last.ret # 0
  /\ Cardinality(sets) = 2
  /\ Cardinality(HeldIds(trackers[1])) = 2
  /\ \E j \in DOMAIN tests : tests[j].state = "WAITING" /\ j \notin InFlight(sets)
  /\ \A s \in sets : tests[s.content[1]].alloc_tracking \in HeldIds(trackers[1])

(***************************************************************************)
(* Claims on the allocations that the tracker refuses.                     *)
(***************************************************************************)
\* There is a placement of the need vector in the tree: the leaf is free, or
\* at least need[1] children of the node have each a placement of the rest.
\* Read off the tree, without the traversal of do_alloc.
RECURSIVE CanPlace(_, _)
CanPlace(self, need) ==
  IF self.dim = 0 THEN need = <<>> /\ self.ressource = 0
  ELSE /\ need # <<>>
       /\ Cardinality({i \in 1..Len(self.ressources) :
                         CanPlace(self.ressources[i], Tail(need))}) >= need[1]

\* Every entry of the need vector is a positive integer.
PositiveNeed(need) == \A i \in 1..Len(need) : need[i] > 0

C39_AnyNeed ==
  [][last'.op = "alloc" =>
       LET t    == trackers[last'.tracker]
           need == last'.arg
       IN  Len(need) = t.dim => (last'.ret # 0 <=> CanPlace(t, need))]_vars

TimesPublished(j) == Cardinality({i \in 1..Len(published) : published[i] = j})

\* C40: over a whole run the publisher saves each job at most once, so the
\* executed counter never exceeds the total counter and get_leftjob_count()
\* is never negative.
C40_PublishedOnce ==
  /\ \A j \in DOMAIN tests : TimesPublished(j) <= 1
  /\ count.executed <= count.total
  /\ get_leftjob_count(count) >= 0

(***************************************************************************)
(* Claims on the cancellation of the RunnerAdapter threads.                *)
(***************************************************************************)
\* Every RunnerAdapter thread has left run(): by its break or by an exception.
AllExited == \A w \in Workers : pc[w].at \in {"done", "dead"}

\* A thread that has left run() by its break holds no Set: the last one it
\* took was put in cq, completed or with a job killed.
C21_NoSetHeld == \A w \in Workers : pc[w].at = "done" => pc[w].item = None

\* Once the flag is cleared no Set leaves rq.
C21_NoDequeue == [][~sched_in_progress => rq' = rq]_vars

\* Once the flag is cleared every thread ends.
C21_WorkersExit == ~sched_in_progress ~> AllExited

\* C21: once sched_in_progress has been cleared, no RunnerAdapter thread takes
\* a further Set from rq, however the write of the flag falls between a
\* thread's test of the flag and its get, and every thread ends, having
\* finished or killed the Set it was running.
C21_Cancellation == C21_NoDequeue /\ [](C21_NoSetHeld) /\ C21_WorkersExit

====
